---- MODULE Spec2Model ----
(***************************************************************************)
(* A model of the Quant-X research portal (QuantX_Project): the            *)
(* authentication manager (core/auth.py), the audit logger                 *)
(* (core/logger.py), the tool middleware and the tools (agents/tools.py),  *)
(* the guardrails (core/guardrails.py), the multi-agent front              *)
(* (agents/core.py) and the request handler of the dashboard (app.py).     *)
(*                                                                         *)
(* Text.  A Python str is a sequence of characters, each character a       *)
(* one-element TLA+ string.  A Hangul syllable is one character and is     *)
(* written romanised ("su", "ik", "bo", "jang" for the four syllables of   *)
(* the phrase su-ik-bo-jang, "profit guarantee").                          *)
(***************************************************************************)
EXTENDS Integers, Sequences, FiniteSets, TLC

VARIABLES
    current_session,   \* auth_manager.current_session (None or a UserSession)
    role_permissions,  \* auth_manager.role_permissions (the static table)
    memory_buffer,     \* audit_logger.memory_buffer (deque(maxlen=100))
    log_file,          \* the lines the logging handlers wrote, in order
    call,              \* the tool call in progress in middleware_wrapper.wrapper
    report_files,      \* the files written under ./data/reports, in order
    session_state,     \* st.session_state of the browser session
    AGENT_SESSION_STATE, \* agents/core.py: the module-level dictionary
    agent_calls,       \* the calls of process_request so far: request, response
    user_agent,        \* the QuantXMultiAgent that create_agent returned last
    rag_engine,        \* the attributes of the RAGEngine singleton
    vector_store_dir,  \* the index saved under ./data/vector_store, or None
    lock,              \* AuditLogger.lock: TRUE while a thread holds it
    threads,           \* the threads that call the logger: where each one is
    ret                \* what the last operation returned or raised

vars ==
    <<current_session, role_permissions, memory_buffer, log_file, call,
      report_files, session_state, AGENT_SESSION_STATE, agent_calls,
      user_agent, rag_engine, vector_store_dir, lock, threads, ret>>

authVars == <<current_session, role_permissions>>
logVars == <<memory_buffer, log_file>>
ragVars == <<rag_engine, vector_store_dir>>
lockVars == <<lock, threads>>
toolVars == <<call, report_files, ragVars, lockVars>>
appVars == <<session_state, AGENT_SESSION_STATE, agent_calls, user_agent>>

\* Python's None, where the other values are objects (records).
None == [none |-> TRUE]

\* The "raised" field of an outcome that is a normal return.
NoException == "no exception"

(***************************************************************************)
(* Bounds of the model.                                                    *)
(***************************************************************************)
MaxLogLines == 103     \* LogSpec: logging calls made in one run
MaxVaried == 1         \* LogSpec: leading calls whose kind is a free choice
MaxToolCalls == 1      \* Spec: tool calls made in one run
NumThreads == 2        \* LockSpec: threads that call the logger
MaxLockCalls == 3      \* LockSpec: logger calls started in one run

(***************************************************************************)
(* Python str and list helpers.                                            *)
(***************************************************************************)
UpperAlpha ==
    <<"A","B","C","D","E","F","G","H","I","J","K","L","M",
      "N","O","P","Q","R","S","T","U","V","W","X","Y","Z">>

LowerAlpha ==
    <<"a","b","c","d","e","f","g","h","i","j","k","l","m",
      "n","o","p","q","r","s","t","u","v","w","x","y","z">>

\* str.lower() of one character: only cased letters change.
LowerChar(c) ==
    IF \E i \in DOMAIN UpperAlpha : UpperAlpha[i] = c
    THEN LowerAlpha[CHOOSE i \in DOMAIN UpperAlpha : UpperAlpha[i] = c]
    ELSE c

str_lower_mutant(s) == s

str_lower(s) == [i \in 1..Len(s) |-> LowerChar(s[i])]

\* pat in s
Contains(s, pat) ==
    \E i \in 0..(Len(s) - Len(pat)) : \A j \in 1..Len(pat) : s[i + j] = pat[j]

Min(a, b) == IF a < b THEN a ELSE b
Max(a, b) == IF a > b THEN a ELSE b

\* lst[start:] with Python's normalisation of the start index.
PySliceFrom(lst, start) ==
    LET n == Len(lst)
        lo == IF start < 0 THEN Max(n + start, 0) ELSE Min(start, n)
    IN SubSeq(lst, lo + 1, n)

\* Logical time: datetime.now() as the number of lines logged so far.
Now == Len(log_file)

(***************************************************************************)
(* core/auth.py                                                            *)
(***************************************************************************)
JUNIOR_ANALYST == "junior_analyst"
SENIOR_MANAGER == "senior_manager"
UserRole == {JUNIOR_ANALYST, SENIOR_MANAGER}

PermissionNames ==
    {"search_internal", "search_web", "get_stock_price", "save_report",
     "access_sensitive_data"}

\* AuthenticationManager.__init__: the permission matrix.
InitialRolePermissions ==
    [r \in UserRole |->
        [p \in PermissionNames |->
            IF r = SENIOR_MANAGER
            THEN TRUE
            ELSE p \in {"search_internal", "search_web", "get_stock_price"}]]

senior == <<"s","e","n","i","o","r">>

\* login: the role assigned to a user id.
RoleOfMutant(user_id) ==
    IF Contains(user_id, senior) THEN SENIOR_MANAGER ELSE JUNIOR_ANALYST

RoleOf(user_id) ==
    IF Contains(str_lower(user_id), senior) THEN SENIOR_MANAGER ELSE JUNIOR_ANALYST

\* login: the UserSession it creates (permissions is a copy of the row).
\* login_time is left out: only get_user_info's display reads it.
NewSession(user_id, table) ==
    [user_id |-> user_id,
     role |-> RoleOf(user_id),
     permissions |-> table[RoleOf(user_id)]]

is_logged_in(session) == session # None

\* check_permission: what it returns, or the PermissionError it raises.
check_permission_mutant(session, permission) ==
    IF ~is_logged_in(session)
    THEN [raised |-> "PermissionError", value |-> "login_required"]
    ELSE LET has_permission ==
                 IF permission \in DOMAIN session.permissions
                 THEN session.permissions[permission]
                 ELSE FALSE
         IN [raised |-> NoException, value |-> has_permission]

check_permission(session, permission) ==
    IF ~is_logged_in(session)
    THEN [raised |-> "PermissionError", value |-> "login_required"]
    ELSE LET has_permission ==
                 IF permission \in DOMAIN session.permissions
                 THEN session.permissions[permission]
                 ELSE FALSE
         IN IF has_permission
            THEN [raised |-> NoException, value |-> has_permission]
            ELSE [raised |-> "PermissionError", value |-> "no_permission"]

(***************************************************************************)
(* core/logger.py                                                          *)
(***************************************************************************)
BufferMaxLen == 100

\* deque(maxlen=100).append
deque_append_mutant(buf, rec) ==
    IF Len(buf) > BufferMaxLen THEN Append(Tail(buf), rec) ELSE Append(buf, rec)

deque_append(buf, rec) ==
    IF Len(buf) >= BufferMaxLen THEN Append(Tail(buf), rec) ELSE Append(buf, rec)

\* Values of a details dict: [t |-> "str", v |-> characters], [t |-> "lit",
\* v |-> a fixed program string], [t |-> "num", v |-> n], [t |-> "list",
\* v |-> sequence], [t |-> "dict", v |-> dict].  A dict is a function from
\* key names to values.  EmptyDict is {}; a details argument of None is
\* EmptyDict too: the logger reads details only through "details or {}"
\* and "if details", which treat the two alike.
Str(s) == [t |-> "str", v |-> s]
Lit(s) == [t |-> "lit", v |-> s]
Num(n) == [t |-> "num", v |-> n]
List(l) == [t |-> "list", v |-> l]
Dict(d) == [t |-> "dict", v |-> d]
EmptyDict == [k \in {} |-> Num(0)]

\* The spelling of the key names the callers use.
KeySpelling(k) ==
    CASE k = "tool_name" -> <<"t","o","o","l","_","n","a","m","e">>
      [] k = "arguments" -> <<"a","r","g","u","m","e","n","t","s">>
      [] k = "start_time" -> <<"s","t","a","r","t","_","t","i","m","e">>
      [] k = "execution_time_seconds" ->
             <<"e","x","e","c","u","t","i","o","n","_","t","i","m","e","_",
               "s","e","c","o","n","d","s">>
      [] k = "result_type" -> <<"r","e","s","u","l","t","_","t","y","p","e">>
      [] k = "result_length" ->
             <<"r","e","s","u","l","t","_","l","e","n","g","t","h">>
      [] k = "error_type" -> <<"e","r","r","o","r","_","t","y","p","e">>
      [] k = "error_message" ->
             <<"e","r","r","o","r","_","m","e","s","s","a","g","e">>
      [] k = "query" -> <<"q","u","e","r","y">>
      [] k = "symbol" -> <<"s","y","m","b","o","l">>
      [] k = "title" -> <<"t","i","t","l","e">>
      [] k = "content" -> <<"c","o","n","t","e","n","t">>
      [] k = "export_path" -> <<"e","x","p","o","r","t","_","p","a","t","h">>
      [] k = "error" -> <<"e","r","r","o","r">>
      [] k = "api_key" -> <<"a","p","i","_","k","e","y">>
      [] k = "user_token" -> <<"u","s","e","r","_","t","o","k","e","n">>
      [] k = "API_KEY" -> <<"A","P","I","_","K","E","Y">>
      [] k = "Password" -> <<"P","a","s","s","w","o","r","d">>
      [] k = "secret_box" -> <<"s","e","c","r","e","t","_","b","o","x">>
      [] k = "note" -> <<"n","o","t","e">>
      [] k = "nested" -> <<"n","e","s","t","e","d">>
      [] k = "items" -> <<"i","t","e","m","s">>
      [] k = "input_length" ->
             <<"i","n","p","u","t","_","l","e","n","g","t","h">>
      [] k = "detected_issues" ->
             <<"d","e","t","e","c","t","e","d","_","i","s","s","u","e","s">>
      [] k = "security_layers" ->
             <<"s","e","c","u","r","i","t","y","_","l","a","y","e","r","s">>
      [] k = "moderation_flagged" ->
             <<"m","o","d","e","r","a","t","i","o","n","_","f","l","a","g","g","e","d">>
      [] k = "input_preview" ->
             <<"i","n","p","u","t","_","p","r","e","v","i","e","w">>
      [] k = "output_length" ->
             <<"o","u","t","p","u","t","_","l","e","n","g","t","h">>
      [] k = "modifications_made" ->
             <<"m","o","d","i","f","i","c","a","t","i","o","n","s","_","m","a","d","e">>

sensitive_keys ==
    { <<"p","a","s","s","w","o","r","d">>, <<"p","a","s","s","w","d">>,
      <<"p","w","d">>, <<"a","p","i","_","k","e","y">>,
      <<"a","p","i","k","e","y">>, <<"t","o","k","e","n">>,
      <<"s","e","c","r","e","t">>,
      <<"p","r","i","v","a","t","e","_","k","e","y">>,
      <<"c","r","e","d","i","t","_","c","a","r","d">>, <<"s","s","n">>,
      <<"s","o","c","i","a","l","_","s","e","c","u","r","i","t","y">> }

MASKED == <<"*","*","*","M","A","S","K","E","D","*","*","*">>

\* value[:2] + "*" * (len(value) - 4) + value[-2:]
MaskString_mutant(s) ==
    SubSeq(s, 1, 2) \o <<"*","*","*","*">> \o SubSeq(s, Len(s) - 1, Len(s))

MaskString(s) ==
    SubSeq(s, 1, 2) \o [i \in 1..(Len(s) - 4) |-> "*"]
        \o SubSeq(s, Len(s) - 1, Len(s))

IsSensitiveKey(k) ==
    LET key_lower == str_lower(KeySpelling(k))
    IN \E sensitive \in sensitive_keys : Contains(key_lower, sensitive)

RECURSIVE _mask_sensitive_data(_)
_mask_sensitive_data(data) ==
    [key \in DOMAIN data |->
        LET value == data[key]
        IN IF IsSensitiveKey(key)
           THEN IF value.t = "str" /\ Len(value.v) > 4
                THEN Str(MaskString(value.v))
                ELSE Str(MASKED)
           ELSE IF value.t = "dict"
                THEN Dict(_mask_sensitive_data(value.v))
                ELSE value]

\* "if details:" -- an empty dict and None are both falsy.
Truthy(details) == DOMAIN details # {}

SafeDetails(details) ==
    IF Truthy(details) THEN _mask_sensitive_data(details) ELSE EmptyDict

\* The f-string of a log message: its literal and interpolated parts, the
\* masked details added when "if details:" holds.
WithDetails(parts, details, safe_details) ==
    IF Truthy(details) THEN parts \o <<" | DETAILS:", safe_details>> ELSE parts

\* One line of the log file: '%(asctime)s | %(levelname)s | %(message)s'.
FileLine(now, levelname, message) ==
    [asctime |-> now, levelname |-> levelname, message |-> message]

SeverityLevel(severity) ==
    IF severity = "CRITICAL" THEN "CRITICAL"
    ELSE IF severity = "WARNING" THEN "WARNING"
    ELSE "INFO"

\* log_audit: its display_record.
audit_record(now, user_id, action, details) ==
    LET safe_details == SafeDetails(details)
    IN [timestamp |-> now,
        user_id |-> user_id,
        action |-> action,
        details |-> safe_details,
        formatted_message |->
            WithDetails(<<"USER:", user_id, " | ACTION:", action>>, details,
                        safe_details)]

\* log_system_event: its display_record.
system_record(now, event_type, message, details) ==
    LET safe_details == SafeDetails(details)
    IN [timestamp |-> now,
        user_id |-> "SYSTEM",
        action |-> event_type,
        details |-> safe_details,
        formatted_message |->
            WithDetails(<<"SYSTEM | ", event_type, " | ", message>>, details,
                        safe_details)]

\* log_security_event: its display_record.
security_record(now, user_id, event_type, message, severity, details) ==
    LET safe_details == SafeDetails(details)
    IN [timestamp |-> now,
        user_id |-> user_id,
        action |-> <<"LOCK ", event_type>>,
        details |-> safe_details,
        formatted_message |->
            WithDetails(<<"SECURITY | ", severity, " | USER:", user_id, " | ",
                          event_type, " | ", message>>, details, safe_details),
        severity |-> severity]

\* get_recent_logs: list(self.memory_buffer)[-count:]
get_recent_logs(buf, count) == PySliceFrom(buf, 0 - count)

\* What a logging method does to the log file and the memory buffer, given
\* as logs = [file, buffer]: one line to the file, one record to the buffer.
logged(logs, record, levelname) ==
    [file |->
         Append(logs.file,
                FileLine(Len(logs.file), levelname, record.formatted_message)),
     buffer |-> deque_append(logs.buffer, record)]

logged_audit(logs, user_id, action, details) ==
    logged(logs, audit_record(Len(logs.file), user_id, action, details), "INFO")

logged_system_event(logs, event_type, message, details) ==
    logged(logs, system_record(Len(logs.file), event_type, message, details), "INFO")

logged_security_event(logs, user_id, event_type, message, severity, details) ==
    logged(logs,
           security_record(Len(logs.file), user_id, event_type, message,
                           severity, details),
           SeverityLevel(severity))

TheLogs == [file |-> log_file, buffer |-> memory_buffer]

SetLogs(logs) ==
    /\ log_file' = logs.file
    /\ memory_buffer' = logs.buffer

\* The three logging methods.
log_audit(user_id, action, details) ==
    SetLogs(logged_audit(TheLogs, user_id, action, details))

log_system_event(event_type, message, details) ==
    SetLogs(logged_system_event(TheLogs, event_type, message, details))

log_security_event(user_id, event_type, message, severity, details) ==
    SetLogs(logged_security_event(TheLogs, user_id, event_type, message,
                                  severity, details))

(***************************************************************************)
(* agents/tools.py: the tools.  A tool body gives [outcome, write]: what   *)
(* it returned or raised, and the report file it wrote (None: no file).    *)
(* The returned f-strings are kept as their parts.                         *)
(***************************************************************************)
IsSpace(c) == c \in {" ", "\t", "\n"}

\* The characters of the model that are neither \w nor \s.
IsPunct(c) ==
    c \in {"/", "-", ".", "!", ":", "=", "*", "'", "#", "%", "\"", "(", ")", ",",
          "[", "]", "?", "@", ";", "<", ">"}

RECURSIVE lstrip(_)
lstrip(s) == IF s # <<>> /\ IsSpace(Head(s)) THEN lstrip(Tail(s)) ELSE s

RECURSIVE rstrip(_)
rstrip(s) ==
    IF s # <<>> /\ IsSpace(s[Len(s)]) THEN rstrip(SubSeq(s, 1, Len(s) - 1)) ELSE s

strip(s) == rstrip(lstrip(s))

\* re.sub(r'[^\w\s-]', '', s)
RECURSIVE RemoveUnsafe(_)
RemoveUnsafe(s) ==
    IF s = <<>> THEN <<>>
    ELSE IF IsPunct(Head(s)) /\ Head(s) # "-"
         THEN RemoveUnsafe(Tail(s))
         ELSE <<Head(s)>> \o RemoveUnsafe(Tail(s))

\* re.sub(r'[-\s]+', '-', s)
RECURSIVE CollapseDashes(_)
CollapseDashes(s) ==
    IF s = <<>> THEN <<>>
    ELSE LET sep(c) == c = "-" \/ IsSpace(c)
         IN IF sep(Head(s))
            THEN IF Len(s) > 1 /\ sep(s[2])
                 THEN CollapseDashes(Tail(s))
                 ELSE <<"-">> \o CollapseDashes(Tail(s))
            ELSE <<Head(s)>> \o CollapseDashes(Tail(s))

safe_title(title) == CollapseDashes(RemoveUnsafe(strip(title)))

Gives(value) == [outcome |-> [raised |-> NoException, value |-> value], write |-> None]

PermissionErrorText(reason) == <<"permission error: ", reason>>

\* What the services a tool uses may do during one call: fault is the
\* exception one of them raises ("none": they work).
Faults == {"none", "Exception", "PermissionError"}

\* search_internal(query); found: whether rag_engine.search gave results.
search_internal(query, session, found, fault) ==
    LET check == check_permission(session, "search_internal")
    IN IF check.raised # NoException THEN Gives(PermissionErrorText(check.value))
       ELSE IF fault = "PermissionError" THEN Gives(PermissionErrorText("os"))
       ELSE IF fault = "Exception" THEN Gives(<<"internal search error">>)
       ELSE IF ~found THEN Gives(<<"[internal knowledge base] nothing found">>)
       ELSE Gives(<<"internal results for ", query>>)

\* search_web(query); found: whether the search API gave results; a fault of
\* the API is caught inside and the demo results are returned.
search_web(query, session, found, fault) ==
    LET check == check_permission(session, "search_web")
    IN IF check.raised # NoException THEN Gives(PermissionErrorText(check.value))
       ELSE IF found /\ fault = "none" THEN Gives(<<"web results for ", query>>)
       ELSE Gives(<<"demo results for ", query>>)

\* get_stock_price(symbol); found: whether the quote service had history; a
\* fault of the quote service is caught by the inner handler.
get_stock_price(symbol, session, found, fault) ==
    LET check == check_permission(session, "get_stock_price")
    IN IF check.raised # NoException THEN Gives(PermissionErrorText(check.value))
       ELSE IF symbol = <<>> \/ strip(symbol) = <<>>
            THEN Gives(<<"enter a stock symbol">>)
       ELSE IF fault # "none" THEN Gives(<<"stock lookup error">>)
       ELSE IF ~found THEN Gives(<<"no price found for ", symbol>>)
       ELSE Gives(<<"price of ", symbol>>)

\* get_market_summary(): a fault of the quote service is caught per index.
get_market_summary(session) ==
    LET check == check_permission(session, "get_stock_price")
    IN IF check.raised # NoException THEN Gives(PermissionErrorText(check.value))
       ELSE Gives(<<"market summary">>)

PermissionDenied(reason) == <<"PERMISSION DENIED ", reason, " SENIOR_MANAGER needed">>

ReportFile(title, content, session, now) ==
    [filename |-> <<now, "_", safe_title(title), ".md">>,
     title |-> title,
     author |-> session.user_id,
     content |-> content]

\* save_report(title, content); fault: what mkdir/open/write raise.
save_report_mutant(title, content, session, fault, now) ==
    IF title = <<>> \/ strip(title) = <<>> THEN Gives(<<"enter a report title">>)
    ELSE IF content = <<>> \/ strip(content) = <<>>
         THEN Gives(<<"enter the report content">>)
    ELSE LET check == check_permission(session, "save_report")
         IN IF check.raised # NoException THEN Gives(PermissionDenied(check.value))
            ELSE IF fault = "PermissionError" THEN Gives(PermissionDenied("os"))
            ELSE IF fault = "Exception" THEN Gives(<<"report save error">>)
            ELSE [outcome |->
                      [raised |-> NoException,
                       value |-> <<"report saved ", <<now, "_", safe_title(title), ".md">> >>],
                  write |-> ReportFile(title, content, session, now)]

save_report(title, content, session, fault, now) ==
    LET check == check_permission(session, "save_report")
    IN IF check.raised # NoException THEN Gives(PermissionDenied(check.value))
       ELSE IF title = <<>> \/ strip(title) = <<>>
            THEN Gives(<<"enter a report title">>)
       ELSE IF content = <<>> \/ strip(content) = <<>>
            THEN Gives(<<"enter the report content">>)
       ELSE IF fault = "PermissionError" THEN Gives(PermissionDenied("os"))
       ELSE IF fault = "Exception" THEN Gives(<<"report save error">>)
       ELSE [outcome |->
                 [raised |-> NoException,
                  value |-> <<"report saved ", <<now, "_", safe_title(title), ".md">> >>],
             write |-> ReportFile(title, content, session, now)]

ToolNames ==
    {"search_internal", "search_web", "get_stock_price", "save_report",
     "get_market_summary"}

\* The parameters of each tool, in order.
ToolParams(tool) ==
    CASE tool = "search_internal" -> <<"query">>
      [] tool = "search_web" -> <<"query">>
      [] tool = "get_stock_price" -> <<"symbol">>
      [] tool = "save_report" -> <<"title", "content">>
      [] tool = "get_market_summary" -> <<>>

\* func.__name__.upper()
NameUpper(tool) ==
    CASE tool = "search_internal" -> "SEARCH_INTERNAL"
      [] tool = "search_web" -> "SEARCH_WEB"
      [] tool = "get_stock_price" -> "GET_STOCK_PRICE"
      [] tool = "save_report" -> "SAVE_REPORT"
      [] tool = "get_market_summary" -> "GET_MARKET_SUMMARY"

\* func(*args, **kwargs): whether the arguments bind to the parameters
\* (Python raises TypeError otherwise), and the value bound to a parameter.
Binds(tool, args, kwargs) ==
    LET params == ToolParams(tool)
    IN /\ Len(args) <= Len(params)
       /\ DOMAIN kwargs = {params[i] : i \in (Len(args) + 1)..Len(params)}

Arg(tool, args, kwargs, name) ==
    LET params == ToolParams(tool)
        i == CHOOSE j \in DOMAIN params : params[j] = name
    IN IF i <= Len(args) THEN args[i] ELSE kwargs[name]

\* The body of the wrapped function, called as func(*args, **kwargs).
ToolBody(tool, args, kwargs, session, found, fault, now) ==
    IF ~Binds(tool, args, kwargs)
    THEN [outcome |-> [raised |-> "TypeError", value |-> "arguments do not bind"],
          write |-> None]
    ELSE CASE tool = "search_internal" ->
                  search_internal(Arg(tool, args, kwargs, "query"), session,
                                  found, fault)
           [] tool = "search_web" ->
                  search_web(Arg(tool, args, kwargs, "query"), session, found,
                             fault)
           [] tool = "get_stock_price" ->
                  get_stock_price(Arg(tool, args, kwargs, "symbol"), session,
                                  found, fault)
           [] tool = "get_market_summary" -> get_market_summary(session)
           [] tool = "save_report" ->
                  save_report(Arg(tool, args, kwargs, "title"),
                              Arg(tool, args, kwargs, "content"), session,
                              fault, now)

(***************************************************************************)
(* agents/tools.py: middleware_wrapper.                                    *)
(***************************************************************************)
anonymous == <<"a","n","o","n","y","m","o","u","s">>

\* wrapper: user_id = user_session.user_id if user_session else "anonymous"
wrapper_user_id(session) == IF session # None THEN session.user_id ELSE anonymous

\* The user id the wrapper gives to its second record: the local variable.
record_user_id_mutant(c, session) == wrapper_user_id(session)

record_user_id(c, session) == c.user_id

ArgPreviewLen == 100

\* str(v)[:100]
Truncate(s) == SubSeq(s, 1, Min(Len(s), ArgPreviewLen))

\* "except Exception": the exceptions of the model are all Exceptions.
IsException_mutant(error) == error = "PermissionError"

IsException(error) == error \in {"TypeError", "PermissionError", "Exception"}

\* wrapper, lines 59-67: the TOOL_CALL_<NAME> audit record.
wrapper_logs_call(logs, user_id, tool, kwargs) ==
    logged_audit(logs, user_id, <<"TOOL_CALL_", NameUpper(tool)>>,
        [k \in {"tool_name", "arguments", "start_time"} |->
            CASE k = "tool_name" -> Lit(tool)
              [] k = "arguments" ->
                     Dict([a \in DOMAIN kwargs |-> Str(Truncate(kwargs[a]))])
              [] k = "start_time" -> Num(Len(logs.file))])

\* wrapper, lines 74-84: the TOOL_SUCCESS_<NAME> audit record.  The length
\* of the result is not modelled.
wrapper_logs_success(logs, user_id, tool, start_time) ==
    logged_audit(logs, user_id, <<"TOOL_SUCCESS_", NameUpper(tool)>>,
        [k \in {"tool_name", "execution_time_seconds", "result_type",
                "result_length"} |->
            CASE k = "tool_name" -> Lit(tool)
              [] k = "execution_time_seconds" -> Num(Len(logs.file) - start_time)
              [] k = "result_type" -> Lit("str")
              [] k = "result_length" -> Lit("len(str(result))")])

\* wrapper, lines 90-102: the TOOL_ERROR security event.
wrapper_logs_error(logs, user_id, tool, start_time, error, message) ==
    logged_security_event(logs, user_id, "TOOL_ERROR", <<"tool failed: ", tool>>,
        "WARNING",
        [k \in {"tool_name", "error_type", "error_message",
                "execution_time_seconds"} |->
            CASE k = "tool_name" -> Lit(tool)
              [] k = "error_type" -> Lit(error)
              [] k = "error_message" -> Lit(message)
              [] k = "execution_time_seconds" -> Num(Len(logs.file) - start_time)])

(***************************************************************************)
(* core/guardrails.py.  Texts are sequences of characters; a Hangul        *)
(* syllable is one character, written as its romanisation.                 *)
(***************************************************************************)
IsDigit(c) == c \in {"0", "1", "2", "3", "4", "5", "6", "7", "8", "9"}

\* \w: letters (Hangul included), digits and the underscore.
IsWord(c) == ~IsSpace(c) /\ ~IsPunct(c)

\* self.input_blacklist, in order (Hangul syllables are romanised).
input_blacklist ==
    << <<"hae","king">>,
       <<"keu","rae","king">>,
       <<"pi","sing">>,
       <<"seu","mi","sing">>,
       <<"s","q","l"," ","i","n","j","e","c","t","i","o","n">>,
       <<"x","s","s">>,
       <<"c","s","r","f">>,
       <<"nae","bu","ja">>,
       <<"nae","bu","jeong","bo">>,
       <<"mi","gong","gae","jeong","bo">>,
       <<"in","sa","ii","deo">>,
       <<"i","n","s","i","d","e","r"," ","t","r","a","d","i","n","g">>,
       <<"jak","jeon","ju">>,
       <<"jak","jeon","se","ryeok">>,
       <<"ju","ga","jo","jak">>,
       <<"peom","peu","aen","deom","peu">>,
       <<"p","u","m","p"," ","a","n","d"," ","d","u","m","p">>,
       <<"jji","ra","si">>,
       <<"ru","meo">>,
       <<"ga","jja","nyu","seu">>,
       <<"mi","hwak","in","jeong","bo">>,
       <<"ka","deo","ra">> >>

\* self.compliance_violations, in order.
compliance_violations ==
    << <<"mu","jo","geon">>,
       <<"hwak","sil","han">>,
       <<"bo","jang">>,
       <<"1","0","0","%">>,
       <<"ban","deu","si">>,
       <<"teul","rim","eops","ii">>,
       <<"hwak","sil","hi">>,
       <<"sa","se","yo">>,
       <<"pa","se","yo">>,
       <<"mae","su","ha","se","yo">>,
       <<"mae","do","ha","se","yo">>,
       <<"chu","cheon","hap","ni","da">>,
       <<"gang","ryeok","chu","cheon">>,
       <<"su","ik","bo","jang">>,
       <<"won","geum","bo","jang">>,
       <<"son","sil","eops","eum">>,
       <<"wi","heom","eops","eum">>,
       <<"an","jeon","han","tu","ja">> >>

\* self.compliance_replacements: the phrases that have a replacement, each
\* with it.
compliance_replacements ==
    << [phrase |-> <<"mu","jo","geon">>,
         replacement |->
             <<"[","geom","yeol","doem"," ","-"," ","bul","hwak","sil",
               "seong"," ","pyo","hyeon"," ","pil","yo","]">>],
       [phrase |-> <<"hwak","sil","han">>,
         replacement |->
             <<"ga","neung","seong","ii"," ","noph","eun">>],
       [phrase |-> <<"bo","jang">>,
         replacement |->
             <<"ye","sang">>],
       [phrase |-> <<"1","0","0","%">>,
         replacement |->
             <<"noph","eun"," ","hwak","ryul","ro">>],
       [phrase |-> <<"ban","deu","si">>,
         replacement |->
             <<"il","ban","jeok","eu","ro">>],
       [phrase |-> <<"teul","rim","eops","ii">>,
         replacement |->
             <<"chu","jeong","doe","neun">>],
       [phrase |-> <<"hwak","sil","hi">>,
         replacement |->
             <<"ye","sang","doe","neun">>],
       [phrase |-> <<"sa","se","yo">>,
         replacement |->
             <<"mae","su","reul"," ","go","ryeo","hae","bol"," ","su"," ",
               "iss","seup","ni","da">>],
       [phrase |-> <<"pa","se","yo">>,
         replacement |->
             <<"mae","do","reul"," ","geom","to","hae","bol"," ","su"," ",
               "iss","seup","ni","da">>],
       [phrase |-> <<"chu","cheon","hap","ni","da">>,
         replacement |->
             <<"cham","go","ha","si","gi"," ","ba","rap","ni","da">>],
       [phrase |-> <<"su","ik","bo","jang">>,
         replacement |->
             <<"[","geom","yeol","doem"," ","-"," ","su","ik"," ","bo",
               "jang"," ","bul","ga","]">>],
       [phrase |-> <<"won","geum","bo","jang">>,
         replacement |->
             <<"[","geom","yeol","doem"," ","-"," ","won","geum"," ","bo",
               "jang"," ","bul","ga","]">>] >>

\* _needs_disclaimer: financial_keywords.
financial_keywords ==
    << <<"tu","ja">>,
       <<"ju","sik">>,
       <<"chae","gwon">>,
       <<"peon","deu">>,
       <<"su","ik">>,
       <<"son","sil">>,
       <<"wi","heom">>,
       <<"mae","su">>,
       <<"mae","do">>,
       <<"chu","cheon">>,
       <<"jeon","mang">>,
       <<"ye","sang">>,
       <<"bun","seok">>,
       <<"pyeong","ga">> >>

\* _get_financial_disclaimer (its leading warning sign left out).
financial_disclaimer ==
    <<"*","*","tu","ja"," ","yu","ui","sa","hang","*","*","\n","bon"," ",
      "jeong","bo","neun"," ","tu","ja"," ","cham","go","yong","ii","myeo",
      ","," ","tu","ja"," ","gyeol","jeong","ee"," ","dae","han"," ",
      "chaek","im","eun"," ","tu","ja","ja"," ","bon","in","ee","ge"," ",
      "iss","seup","ni","da","."," ","tu","ja","ee","neun"," ","won","geum",
      " ","son","sil"," ","wi","heom","ii"," ","iss","eu","myeo",","," ",
      "gwa","geo"," ","seong","gwa","ga"," ","mi","rae"," ","su","ik","eul",
      " ","bo","jang","ha","ji"," ","anh","seup","ni","da","."," ","tu",
      "ja"," ","jeon"," ","chung","bun","han"," ","geom","to","wa"," ",
      "jeon","mun","ga"," ","sang","dam","eul"," ","gwon","jang","hap","ni",
      "da",".">>

BLOCK_MESSAGE ==
    <<"[","kon","ten","cheu"," ","cha","dan","]"," ","hae","dang"," ",
      "eung","dap","eun"," ","bo","an"," ","jeong","chaek","ee"," ","wi",
      "bae","doe","eo"," ","pyo","si","hal"," ","su"," ","eops","seup","ni",
      "da",".">>

SENSITIVE_BLOCKED ==
    <<"[","min","gam","jeong","bo"," ","cha","dan","]">>

\* One item of a regular expression: a class of characters and how many of
\* them (max = -1: any number).  Every pattern is matched with re.IGNORECASE.
Ch(c) == [kind |-> "char", c |-> c, min |-> 1, max |-> 1]
Star(kind) == [kind |-> kind, c |-> "", min |-> 0, max |-> -1]
Opt(kind) == [kind |-> kind, c |-> "", min |-> 0, max |-> 1]
AtLeast(kind, n) == [kind |-> kind, c |-> "", min |-> n, max |-> -1]
Exactly(kind, n) == [kind |-> kind, c |-> "", min |-> n, max |-> n]

Matches(item, c) ==
    CASE item.kind = "char" -> LowerChar(c) = item.c
      [] item.kind = "\\d" -> IsDigit(c)
      [] item.kind = "\\w" -> IsWord(c)
      [] item.kind = "[\\w\\-]" -> IsWord(c) \/ c = "-"
      [] item.kind = "\\s" -> IsSpace(c)
      [] item.kind = "[_\\s]" -> c = "_" \/ IsSpace(c)
      [] item.kind = "[-\\s]" -> c = "-" \/ IsSpace(c)
      [] item.kind = "[=:]" -> c \in {"=", ":"}
      [] item.kind = "[\"']" -> c \in {"\"", "'"}

\* self.suspicious_patterns: API key, password, card number, resident number.
suspicious_patterns ==
    << <<Ch("a"), Ch("p"), Ch("i"), Star("[_\\s]"), Ch("k"), Ch("e"), Ch("y"),
         Star("[_\\s]"), Exactly("[=:]", 1), Star("\\s"), Opt("[\"']"),
         AtLeast("[\\w\\-]", 10)>>,
       <<Ch("p"), Ch("a"), Ch("s"), Ch("s"), Ch("w"), Ch("o"), Ch("r"), Ch("d"),
         Star("[_\\s]"), Exactly("[=:]", 1), Star("\\s"), Opt("[\"']"),
         AtLeast("\\w", 6)>>,
       <<Exactly("\\d", 4), Opt("[-\\s]"), Exactly("\\d", 4), Opt("[-\\s]"),
         Exactly("\\d", 4), Opt("[-\\s]"), Exactly("\\d", 4)>>,
       <<Exactly("\\d", 6), Opt("[-\\s]"), Exactly("\\d", 7)>> >>

\* The number of characters from position i on that match the item, counted
\* up to limit of them (a negative limit: all of them).
RECURSIVE Run(_, _, _, _)
Run(s, i, item, limit) ==
    IF limit # 0 /\ i <= Len(s) /\ Matches(item, s[i])
    THEN 1 + Run(s, i + 1, item, limit - 1)
    ELSE 0

\* The backtracking matcher: the position after the match of the items
\* j.. of the pattern that starts at position i (0: no match).  An item
\* first takes as many characters as it can, then gives them back one by one.
RECURSIVE MatchFrom(_, _, _, _)
RECURSIVE TryCount(_, _, _, _, _)
MatchFrom(s, i, pattern, j) ==
    IF j > Len(pattern) THEN i
    ELSE LET item == pattern[j]
             most == Run(s, i, item, item.max)
         IN IF most < item.min THEN 0 ELSE TryCount(s, i, pattern, j, most)

TryCount(s, i, pattern, j, k) ==
    LET end == MatchFrom(s, i + k, pattern, j + 1)
    IN IF end # 0 THEN end
       ELSE IF k > pattern[j].min THEN TryCount(s, i, pattern, j, k - 1)
       ELSE 0

\* re.search(pattern, s, re.IGNORECASE) is not None
re_search(pattern, s) == \E i \in 1..Len(s) : MatchFrom(s, i, pattern, 1) # 0

\* re.sub(pattern, repl, s, flags=re.IGNORECASE), from position i on: the
\* leftmost match is replaced, and the search goes on after it.
RECURSIVE re_sub_from(_, _, _, _)
re_sub_from(pattern, repl, s, i) ==
    LET starts == {k \in i..Len(s) : MatchFrom(s, k, pattern, 1) # 0}
    IN IF starts = {} THEN SubSeq(s, i, Len(s))
       ELSE LET first == CHOOSE k \in starts : \A m \in starts : k <= m
            IN SubSeq(s, i, first - 1) \o repl
                   \o re_sub_from(pattern, repl, s,
                                  MatchFrom(s, first, pattern, 1))

re_sub(pattern, repl, s) == re_sub_from(pattern, repl, s, 1)

\* s.replace(old, new): the occurrences from the left, not overlapping.
RECURSIVE str_replace(_, _, _)
str_replace(s, old, new) ==
    IF Len(s) < Len(old) THEN s
    ELSE IF SubSeq(s, 1, Len(old)) = old
         THEN new \o str_replace(SubSeq(s, Len(old) + 1, Len(s)), old, new)
         ELSE <<Head(s)>> \o str_replace(Tail(s), old, new)

SAFE == "safe"
WARNING == "warning"
BLOCKED == "blocked"

\* self.moderation_thresholds, in thousandths; a category without one: 0.5.
moderation_thresholds(category) ==
    CASE category = "hate" -> 300
      [] category = "hate/threatening" -> 200
      [] category = "harassment" -> 400
      [] category = "harassment/threatening" -> 200
      [] category = "self-harm" -> 300
      [] category = "self-harm/intent" -> 200
      [] category = "self-harm/instructions" -> 200
      [] category = "sexual" -> 500
      [] category = "sexual/minors" -> 100
      [] category = "violence" -> 400
      [] category = "violence/graphic" -> 300
      [] OTHER -> 500

NoScores == [c \in {} |-> 0]
NoCategories == [c \in {} |-> FALSE]

\* _call_openai_moderation.  api is what the moderation service does for
\* this call: [status |-> "disabled"] (no client), [status |-> "error"]
\* (the call raises), or [status |-> "ok", flagged, categories,
\* category_scores] (scores in thousandths).
_call_openai_moderation(text, api) ==
    IF api.status = "disabled"
    THEN [flagged |-> FALSE, categories |-> NoCategories,
          category_scores |-> NoScores, error |-> "moderation unavailable"]
    ELSE IF api.status = "error"
    THEN [flagged |-> FALSE, categories |-> NoCategories,
          category_scores |-> NoScores, error |-> "api error"]
    ELSE LET custom_flagged ==
                 \E category \in DOMAIN api.category_scores :
                     api.category_scores[category] > moderation_thresholds(category)
         IN [flagged |-> api.flagged \/ custom_flagged,
             categories |-> api.categories,
             category_scores |-> api.category_scores,
             error |-> ""]

\* The categories of the moderation service, in the order it reports them.
moderation_categories ==
    <<"hate", "hate/threatening", "harassment", "harassment/threatening",
      "self-harm", "self-harm/intent", "self-harm/instructions", "sexual",
      "sexual/minors", "violence", "violence/graphic">>

\* One entry of detected_issues: what was found and the text it names.
Issue(kind, detail) == [kind |-> kind, detail |-> detail]

InputMaxLen == 10000

\* Stage 2 of check_input and filter_output: the issues it adds and the risk
\* level it leaves.
moderation_issues(moderation, inappropriate) ==
    IF moderation.flagged
    THEN LET flagged_categories ==
                 SelectSeq(moderation_categories,
                           LAMBDA c : c \in DOMAIN moderation.categories
                                      /\ moderation.categories[c])
         IN IF flagged_categories # <<>>
            THEN <<Issue("AI moderation block", flagged_categories)>>
            ELSE <<Issue(inappropriate, <<>>)>>
    ELSE IF moderation.error # ""
    THEN <<Issue("AI moderation error", <<moderation.error>>)>>
    ELSE <<>>

moderation_risk_mutant(moderation, risk_level) ==
    IF moderation.flagged \/ moderation.error # "" THEN BLOCKED ELSE risk_level

moderation_risk(moderation, risk_level) ==
    IF moderation.flagged THEN BLOCKED
    ELSE IF moderation.error # "" /\ risk_level = SAFE THEN WARNING
    ELSE risk_level

\* "if risk_level != RiskLevel.BLOCKED and len(text.strip()) > 0": whether
\* stage 2, the call of _call_openai_moderation(text), is made.
runs_stage2_mutant(risk_level, text) == Len(strip(text)) > 0

runs_stage2(risk_level, text) == risk_level # BLOCKED /\ Len(strip(text)) > 0

\* check_input(user_input): the GuardrailResult, and with it (moderated) the
\* texts _call_openai_moderation was called with.
check_input(user_input, api) ==
    LET input_lower == str_lower(user_input)
        keywords == SelectSeq(input_blacklist, LAMBDA k : Contains(input_lower, k))
        patterns ==
            SelectSeq(suspicious_patterns, LAMBDA p : re_search(p, user_input))
        too_long == Len(user_input) > InputMaxLen
        special ==
            Cardinality({i \in 1..Len(user_input) :
                            ~IsWord(user_input[i]) /\ ~IsSpace(user_input[i])})
        ratio_high == user_input # <<>> /\ 10 * special > 3 * Len(user_input)
        issues1 ==
            [i \in 1..Len(keywords) |-> Issue("blocked keyword", keywords[i])]
            \o [i \in 1..Len(patterns) |-> Issue("sensitive pattern", <<>>)]
            \o (IF too_long THEN <<Issue("input too long", <<>>)>> ELSE <<>>)
            \o (IF ratio_high THEN <<Issue("too many special characters", <<>>)>>
                ELSE <<>>)
        risk1 ==
            IF keywords # <<>> \/ patterns # <<>> \/ too_long THEN BLOCKED
            ELSE IF ratio_high THEN WARNING
            ELSE SAFE
        stage2 == runs_stage2(risk1, user_input)
        moderation == _call_openai_moderation(user_input, api)
        risk_level == IF stage2 THEN moderation_risk(moderation, risk1) ELSE risk1
    IN [is_safe |-> risk_level # BLOCKED,
        risk_level |-> risk_level,
        message |->
            IF risk_level = BLOCKED THEN "input blocked"
            ELSE IF risk_level = WARNING THEN "input needs care"
            ELSE "input is safe",
        detected_issues |->
            issues1 \o (IF stage2
                        THEN moderation_issues(moderation, "inappropriate content")
                        ELSE <<>>),
        moderation_result |-> IF stage2 THEN moderation ELSE None,
        moderated |-> IF stage2 THEN <<user_input>> ELSE <<>>,
        security_layers |->
            <<"keyword filtering">>
            \o (IF stage2 THEN <<"AI moderation">> ELSE <<>>)]

\* _needs_disclaimer
_needs_disclaimer(content) ==
    LET content_lower == str_lower(content)
    IN \E i \in DOMAIN financial_keywords :
           Contains(content_lower, financial_keywords[i])

\* filter_output, the loop over compliance_violations from the i-th on:
\* a violation found in the output is replaced in filtered_content when the
\* table has a replacement for it.
RECURSIVE replace_violations(_, _, _)
replace_violations(output, filtered_content, i) ==
    IF i > Len(compliance_violations) THEN filtered_content
    ELSE LET violation == compliance_violations[i]
             entries ==
                 SelectSeq(compliance_replacements,
                           LAMBDA e : e.phrase = violation)
         IN IF Contains(output, violation) /\ entries # <<>>
            THEN replace_violations(output,
                     str_replace(filtered_content, violation,
                                 entries[1].replacement), i + 1)
            ELSE replace_violations(output, filtered_content, i + 1)

\* filter_output, the loop over suspicious_patterns from the i-th on.
RECURSIVE block_patterns(_, _, _)
block_patterns(output, filtered_content, i) ==
    IF i > Len(suspicious_patterns) THEN filtered_content
    ELSE IF re_search(suspicious_patterns[i], output)
         THEN block_patterns(output,
                  re_sub(suspicious_patterns[i], SENSITIVE_BLOCKED,
                         filtered_content), i + 1)
         ELSE block_patterns(output, filtered_content, i + 1)

\* filter_output(output): the GuardrailResult, and with it (moderated) the
\* texts _call_openai_moderation was called with.
filter_output(output, api) ==
    LET violations ==
            SelectSeq(compliance_violations, LAMBDA v : Contains(output, v))
        replaced == replace_violations(output, output, 1)
        disclaimed ==
            IF _needs_disclaimer(replaced)
            THEN replaced \o <<"\n", "\n">> \o financial_disclaimer
            ELSE replaced
        patterns ==
            SelectSeq(suspicious_patterns, LAMBDA p : re_search(p, output))
        filtered1 == block_patterns(output, disclaimed, 1)
        issues1 ==
            [i \in 1..Len(violations) |-> Issue("compliance violation", violations[i])]
            \o (IF _needs_disclaimer(replaced)
                THEN <<Issue("disclaimer added", <<>>)>>
                ELSE <<>>)
            \o [i \in 1..Len(patterns) |-> Issue("sensitive data exposed", <<>>)]
        risk1 ==
            IF patterns # <<>> THEN BLOCKED
            ELSE IF violations # <<>> THEN WARNING
            ELSE SAFE
        stage2 == runs_stage2(risk1, filtered1)
        moderation == _call_openai_moderation(filtered1, api)
        risk_level == IF stage2 THEN moderation_risk(moderation, risk1) ELSE risk1
    IN [is_safe |-> risk_level # BLOCKED,
        risk_level |-> risk_level,
        message |->
            IF risk_level = BLOCKED THEN "output blocked"
            ELSE IF risk_level = WARNING THEN "output modified for compliance"
            ELSE "output is safe",
        detected_issues |->
            issues1 \o (IF stage2
                        THEN moderation_issues(moderation, "inappropriate output")
                        ELSE <<>>),
        filtered_content |->
            IF stage2 /\ moderation.flagged THEN BLOCK_MESSAGE ELSE filtered1,
        moderation_result |-> IF stage2 THEN moderation ELSE None,
        moderated |-> IF stage2 THEN <<filtered1>> ELSE <<>>,
        security_layers |->
            <<"compliance filtering">>
            \o (IF stage2 THEN <<"AI moderation">> ELSE <<>>)]

(***************************************************************************)
(* agents/core.py: the multi-agent front.  An agent object is the record   *)
(* of its attributes: is_demo_mode and agent (None or the CodeAgent).      *)
(* AGENT_SESSION_STATE is a module-level dictionary; an operator below     *)
(* takes it as agent_state and gives the new one, and with it (runs) the   *)
(* agents whose CodeAgent.run it called, in order.  Time stamps and        *)
(* pictographs of the texts are left out, and of the demo reports only     *)
(* the lines given here are kept.                                          *)
(***************************************************************************)
InitialAgentSessionState ==
    [research_results |-> <<>>, analysis_results |-> <<>>,
     collaboration_log |-> <<>>]

CollaborationEntry(agent, action, key, value) ==
    [agent |-> agent, action |-> action, key |-> key, value |-> value]

Logged(agent_state, entry) ==
    [agent_state EXCEPT !.collaboration_log = Append(@, entry)]

ACTION_INITIALISED ==
    <<"si","seu","tem"," ","cho","gi","hwa"," ","wan","ryo">>

ACTION_MANAGE_START ==
    <<"yo","cheong"," ","gwan","ri"," ","si","jak">>

ACTION_RESEARCH_START ==
    <<"jeong","bo"," ","su","jip"," ","si","jak">>

ACTION_RESEARCH_DONE ==
    <<"jeong","bo"," ","su","jip"," ","wan","ryo">>

ACTION_ANALYSIS_START ==
    <<"si","jang"," ","bun","seok"," ","si","jak">>

ACTION_ANALYSIS_DONE ==
    <<"si","jang"," ","bun","seok"," ","wan","ryo">>

\* os.getenv('OPENAI_API_KEY') on environ, the environment variables that are
\* set: "not openai_api_key or openai_api_key.startswith('your_')".
StartsWith(s, prefix) ==
    Len(s) >= Len(prefix) /\ SubSeq(s, 1, Len(prefix)) = prefix

NoApiKey(environ) ==
    \/ "OPENAI_API_KEY" \notin DOMAIN environ
    \/ environ["OPENAI_API_KEY"] = <<>>
    \/ StartsWith(environ["OPENAI_API_KEY"], <<"y","o","u","r","_">>)

\* CodeAgent(tools=..., model=LiteLLMModel(model_id="gpt-4o"), ...)
CodeAgent(tools) == [tools |-> tools, model |-> "gpt-4o"]

\* __init__ of ResearchAgent, MarketAnalystAgent and ManagerAgent: the
\* attributes is_demo_mode and agent.  init_raises: _initialize_agent raises
\* (the model or the CodeAgent cannot be made).
NewAgent_mutant(environ, SMOLAGENTS_AVAILABLE, init_raises, tools) ==
    [is_demo_mode |-> NoApiKey(environ),
     agent |-> IF SMOLAGENTS_AVAILABLE /\ ~NoApiKey(environ) /\ ~init_raises
               THEN CodeAgent(tools) ELSE None]

NewAgent(environ, SMOLAGENTS_AVAILABLE, init_raises, tools) ==
    IF SMOLAGENTS_AVAILABLE /\ ~NoApiKey(environ) /\ ~init_raises
    THEN [is_demo_mode |-> FALSE, agent |-> CodeAgent(tools)]
    ELSE [is_demo_mode |-> TRUE, agent |-> None]

\* str(e) of the AttributeError of "self.agent.run" when agent is None.
NoRunAttribute ==
    <<"'","N","o","n","e","T","y","p","e","'"," ","o","b","j","e","c","t",
      " ","h","a","s"," ","n","o"," ","a","t","t","r","i","b","u","t","e",
      " ","'","r","u","n","'">>

\* What CodeAgent.run can do: the language model may call a tool of the
\* agent, and the run returns an answer or raises.
LlmAnswer ==
    <<"sam","seong","jeon","ja"," ","mae","su"," ","chu","cheon">>

LlmRuns == [searches : BOOLEAN, raises : BOOLEAN]

\* wrapper, lines 73-105, on logs = [file, buffer]: the logs after the
\* call, the file the body wrote, and what the wrapper returns or raises.
wrapper_outcome(called, user_id, tool, start_time, out) ==
    [logs |->
         IF out.outcome.raised = NoException
         THEN wrapper_logs_success(called, user_id, tool, start_time)
         ELSE IF IsException(out.outcome.raised)
         THEN wrapper_logs_error(called, user_id, tool, start_time,
                                 out.outcome.raised, out.outcome.value)
         ELSE called,
     write |-> out.write,
     raised |-> IF IsException(out.outcome.raised) THEN NoException
                ELSE out.outcome.raised,
     value |-> IF IsException(out.outcome.raised)
               THEN <<"tool error: ", out.outcome.value>>
               ELSE out.outcome.value]

\* middleware_wrapper.wrapper run without interruption.
wrapper(logs, session, tool, args, kwargs, found, fault) ==
    wrapper_outcome(wrapper_logs_call(logs, wrapper_user_id(session), tool, kwargs),
                    wrapper_user_id(session), tool, Len(logs.file),
                    ToolBody(tool, args, kwargs, session, found, fault,
                             Len(logs.file) + 1))

\* ResearchAgent._generate_demo_research
DemoFindings(query) ==
    <<"de","mo"," ","mo","deu"," ","ri","seo","chi"," ","gyeol","gwa",":",
      " ">>
    \o query

DemoResearchReport(query) ==
    <<"#"," ","ri","seo","chi"," ","ee","ii","jeon","teu"," ","bo","go",
      "seo"," ","(","de","mo"," ","mo","deu",")","\n","\n","*","*","jil",
      "ui","*","*",":"," ">>
    \o query \o
    <<"\n","\n","-"," ","*","*","ju","yo"," ","nae","yong","*","*",":"," ",
      "gwan","ryeon"," ","bun","seok"," ","ja","ryo"," ","mich"," ","gwa",
      "geo"," ","yeon","gu"," ","gyeol","gwa","\n">>

_generate_demo_research(agent_state, query) ==
    [agent_state |->
         [agent_state EXCEPT !.research_results =
              Append(@, [query |-> query, findings |-> DemoFindings(query),
                         agent |-> "ResearchAgent"])],
     text |-> DemoResearchReport(query),
     runs |-> <<>>]

ResearchAgentError(e) ==
    <<"*","*","ri","seo","chi"," ","ee","ii","jeon","teu"," ","oo","ryu",
      "*","*","\n","\n","cheo","ri"," ","jung"," ","oo","ryu","ga"," ",
      "bal","saeng","haess","seup","ni","da",":"," ">>
    \o e

\* ResearchAgent._execute_research: the run of the agent on the prompt,
\* which may search the knowledge base for the query.
_execute_research(agent_state, logs, session, self, query, llm) ==
    [agent_state |->
         IF self.agent = None \/ llm.raises THEN agent_state
         ELSE Logged([agent_state EXCEPT !.research_results =
                          Append(@, [query |-> query, findings |-> LlmAnswer,
                                     agent |-> "ResearchAgent"])],
                     CollaborationEntry("ResearchAgent", ACTION_RESEARCH_DONE,
                                        "result_length", Len(LlmAnswer))),
     logs |->
         IF self.agent # None /\ llm.searches
         THEN wrapper(logs, session, "search_internal", <<>>,
                      [p \in {"query"} |-> query], TRUE, "none").logs
         ELSE logs,
     text |->
         IF self.agent = None THEN ResearchAgentError(NoRunAttribute)
         ELSE IF llm.raises THEN ResearchAgentError(<<"llm error">>)
         ELSE LlmAnswer,
     runs |-> IF self.agent = None THEN <<>> ELSE <<"ResearchAgent">>]

\* ResearchAgent.research
research(agent_state, logs, session, self, query, llm) ==
    LET started == Logged(agent_state,
                          CollaborationEntry("ResearchAgent",
                                             ACTION_RESEARCH_START, "query", query))
    IN IF self.is_demo_mode
       THEN _generate_demo_research(started, query) @@ [logs |-> logs]
       ELSE _execute_research(started, logs, session, self, query, llm)

\* MarketAnalystAgent._generate_demo_analysis
DemoAnalysis(query) ==
    <<"de","mo"," ","mo","deu"," ","si","jang"," ","bun","seok"," ","gyeol",
      "gwa",":"," ">>
    \o query

DemoAnalysisReport(query) ==
    <<"#"," ","si","jang"," ","bun","seok"," ","ee","ii","jeon","teu"," ",
      "bo","go","seo"," ","(","de","mo"," ","mo","deu",")","\n","\n","*",
      "*","bun","seok"," ","dae","sang","*","*",":"," ">>
    \o query \o <<"\n">>

_generate_demo_analysis(agent_state, query) ==
    [agent_state |->
         [agent_state EXCEPT !.analysis_results =
              Append(@, [query |-> query, analysis |-> DemoAnalysis(query),
                         agent |-> "MarketAnalystAgent"])],
     text |-> DemoAnalysisReport(query),
     runs |-> <<>>]

AnalystAgentError(e) ==
    <<"*","*","si","jang"," ","bun","seok"," ","ee","ii","jeon","teu"," ",
      "oo","ryu","*","*","\n","\n","cheo","ri"," ","jung"," ","oo","ryu",
      "ga"," ","bal","saeng","haess","seup","ni","da",":"," ">>
    \o e

\* MarketAnalystAgent._execute_analysis: the run of the agent on the prompt
\* (a run that answers without calling a tool).
_execute_analysis(agent_state, self, query, llm) ==
    [agent_state |->
         IF self.agent = None \/ llm.raises THEN agent_state
         ELSE Logged([agent_state EXCEPT !.analysis_results =
                          Append(@, [query |-> query, analysis |-> LlmAnswer,
                                     agent |-> "MarketAnalystAgent"])],
                     CollaborationEntry("MarketAnalystAgent",
                                        ACTION_ANALYSIS_DONE, "result_length",
                                        Len(LlmAnswer))),
     text |->
         IF self.agent = None THEN AnalystAgentError(NoRunAttribute)
         ELSE IF llm.raises THEN AnalystAgentError(<<"llm error">>)
         ELSE LlmAnswer,
     runs |-> IF self.agent = None THEN <<>> ELSE <<"MarketAnalystAgent">>]

\* MarketAnalystAgent.analyze
analyze(agent_state, self, query, llm) ==
    LET started == Logged(agent_state,
                          CollaborationEntry("MarketAnalystAgent",
                                             ACTION_ANALYSIS_START, "query", query))
    IN IF self.is_demo_mode
       THEN _generate_demo_analysis(started, query)
       ELSE _execute_analysis(started, self, query, llm)

\* ManagerAgent._execute_demo_collaboration
CombinedReport(request, user_id, research_result, analysis_result) ==
    <<"#"," ","Q","u","a","n","t","-","X"," ","jong","hap"," ","ri","seo",
      "chi"," ","bo","go","seo"," ","(","de","mo"," ","mo","deu",")","\n",
      "\n","*","*","yo","cheong","*","*",":"," ">>
    \o request \o
    <<"\n","*","*","tim","jang","*","*",":"," ">>
    \o user_id \o <<"\n","\n">> \o research_result
    \o <<"\n","-","-","-","\n">> \o analysis_result \o
    <<"\n","*","*","tu","ja"," ","yu","ui","sa","hang","*","*",":"," ",
      "bon"," ","bo","go","seo","neun"," ","de","mo","yong","ii","myeo",",",
      " ","sil","je"," ","tu","ja"," ","gyeol","jeong","ee"," ","sa","yong",
      "ha","ji"," ","ma","se","yo",".","\n","tu","ja","ee","neun"," ","won",
      "geum"," ","son","sil"," ","wi","heom","ii"," ","iss","eu","myeo",",",
      " ","chung","bun","han"," ","geom","to"," ","hu"," ","sin","jung",
      "han"," ","gyeol","jeong","eul"," ","gwon","jang","hap","ni","da",".",
      "\n">>

demo_report(researched, analysed, user_id, request) ==
    [agent_state |-> analysed.agent_state, logs |-> researched.logs,
     text |-> CombinedReport(request, user_id, researched.text, analysed.text),
     runs |-> researched.runs \o analysed.runs]

demo_analysis(researched, self, request, llm) ==
    demo_report(researched,
                analyze(researched.agent_state, self.analyst_agent, request, llm),
                self.user_id, request)

_execute_demo_collaboration(agent_state, logs, session, self, request, llm) ==
    demo_analysis(research(agent_state, logs, session, self.research_agent,
                           request, llm),
                  self, request, llm)

ManagerAgentError(e) ==
    <<"*","*","mae","ni","jeo"," ","ee","ii","jeon","teu"," ","oo","ryu",
      "*","*","\n","\n","cheo","ri"," ","jung"," ","oo","ryu","ga"," ",
      "bal","saeng","haess","seup","ni","da",":"," ">>
    \o e

\* str(e) of the AttributeError that line 581 raises: ManagerAgent has the
\* attribute analyst_agent and no attribute market_analyst.
NoMarketAnalyst ==
    <<"'","M","a","n","a","g","e","r","A","g","e","n","t","'"," ","o","b",
      "j","e","c","t"," ","h","a","s"," ","n","o"," ","a","t","t","r","i",
      "b","u","t","e"," ","'","m","a","r","k","e","t","_","a","n","a","l",
      "y","s","t","'">>

\* ManagerAgent._execute_management: the research runs, then line 581 raises
\* and the handler of line 613 gives the error text.
_execute_management(agent_state, logs, session, self, request, llm) ==
    [research(agent_state, logs, session, self.research_agent, request, llm)
         EXCEPT !.text = ManagerAgentError(NoMarketAnalyst)]

\* ManagerAgent.manage_request
manage_request(agent_state, logs, session, self, request, llm) ==
    LET started == Logged(agent_state,
                          CollaborationEntry("ManagerAgent", ACTION_MANAGE_START,
                                             "request", request))
    IN IF self.is_demo_mode
       THEN _execute_demo_collaboration(started, logs, session, self, request,
                                        llm)
       ELSE _execute_management(started, logs, session, self, request, llm)

\* ManagerAgent.__init__: the two workers are made first, then the manager's
\* own agent.  init_raises: the agents whose _initialize_agent raises.
ManagerAgent(environ, SMOLAGENTS_AVAILABLE, init_raises, user_id) ==
    NewAgent(environ, SMOLAGENTS_AVAILABLE, "ManagerAgent" \in init_raises,
             <<"save_report">>)
    @@ [user_id |-> user_id,
        research_agent |->
            NewAgent(environ, SMOLAGENTS_AVAILABLE,
                     "ResearchAgent" \in init_raises,
                     <<"search_internal", "search_web">>),
        analyst_agent |->
            NewAgent(environ, SMOLAGENTS_AVAILABLE,
                     "MarketAnalystAgent" \in init_raises,
                     <<"get_stock_price", "get_market_summary">>)]

\* QuantXMultiAgent.__init__: the attributes of the new object.
QuantXMultiAgent(manager_agent) ==
    [user_id |-> manager_agent.user_id, manager_agent |-> manager_agent,
     is_demo_mode |-> manager_agent.is_demo_mode]

\* create_agent, QuantXMultiAgent.__init__: one more entry of the
\* collaboration log.
create_agent(agent_state, user_id) ==
    Logged(agent_state,
           CollaborationEntry("QuantXMultiAgent", ACTION_INITIALISED,
                              "user_id", user_id))

\* QuantXMultiAgent.process_request
process_request(agent_state, logs, session, self, request, llm) ==
    manage_request(agent_state, logs, session, self.manager_agent, request, llm)


(***************************************************************************)
(* core/rag_engine.py: the knowledge base.  self is the record of the      *)
(* engine's attributes vector_store and embeddings, dir the index saved in *)
(* the cache directory (None: no index.faiss).  env says which of the      *)
(* outside services work during a call.  A text is split as the splitter   *)
(* splits a text without separators: into windows.                         *)
(***************************************************************************)
ChunkSize == 1000
ChunkOverlap == 200

Document(page_content, metadata) ==
    [page_content |-> page_content, metadata |-> metadata]

\* dict.get(key, default)
DictGet(d, key, default) == IF key \in DOMAIN d THEN d[key] ELSE default

\* The rows of the two datasets.
DartDataset ==
    << [text |-> <<"sam","seong"," ","gong","si">>, category |-> "earnings"],
       [text |-> <<"hyeon","dae"," ","gong","si">>] >>

ReportDataset ==
    << [text |-> <<"si","hwang"," ","ri","po","teu">>, category |-> "market"] >>

\* _create_dummy_documents
_create_dummy_documents ==
    << Document(<<"sam","seong","jeon","ja"," ","sil","jeok">>,
                [source |-> "disclosure", category |-> "earnings",
                 doc_type |-> "dummy_data"]),
       Document(<<"gi","jun","geum","ri"," ","dong","gyeol">>,
                [source |-> "report", category |-> "market",
                 doc_type |-> "dummy_data"]),
       Document(<<"ko","seu","pi"," ","hoe","bok">>,
                [source |-> "report", category |-> "market",
                 doc_type |-> "dummy_data"]) >>

DatasetDocuments(dataset, source, category, doc_type) ==
    [i \in 1..Len(dataset) |->
        Document(dataset[i].text,
                 [source |-> source,
                  category |-> DictGet(dataset[i], "category", category),
                  doc_type |-> doc_type])]

\* _load_financial_datasets: a dataset that cannot be loaded is left out,
\* and the dummy documents stand in when nothing was loaded.
_load_financial_datasets(env) ==
    LET documents ==
            (IF env.dart_ok
             THEN DatasetDocuments(DartDataset, "disclosure", "disclosure",
                                   "dart_report")
             ELSE <<>>)
            \o (IF env.report_ok
                THEN DatasetDocuments(ReportDataset, "report", "market",
                                      "financial_report")
                ELSE <<>>)
    IN IF documents = <<>> THEN _create_dummy_documents ELSE documents

RECURSIVE split_text(_)
split_text(text) ==
    IF text = <<>> THEN <<>>
    ELSE IF Len(text) <= ChunkSize THEN <<text>>
    ELSE <<SubSeq(text, 1, ChunkSize)>>
         \o split_text(SubSeq(text, ChunkSize - ChunkOverlap + 1, Len(text)))

\* _chunk_documents: every chunk keeps the metadata of its document.
RECURSIVE _chunk_documents(_)
_chunk_documents(documents) ==
    IF documents = <<>> THEN <<>>
    ELSE [i \in 1..Len(split_text(Head(documents).page_content)) |->
             Document(split_text(Head(documents).page_content)[i],
                      Head(documents).metadata)]
         \o _chunk_documents(Tail(documents))

\* RAGEngine.__init__
NewRAGEngine == [vector_store |-> None, embeddings |-> None]

OpenAIEmbeddings == [model |-> "text-embedding-ada-002"]

\* FAISS.from_documents(documents, embedding)
FAISS(documents) == [documents |-> documents]

\* _load_cached_index: False when there is no index file, when the
\* embeddings cannot be made, or when the file cannot be loaded.
_load_cached_index(self, dir, env) ==
    IF dir = None \/ ~env.embeddings_ok THEN [self |-> self, value |-> FALSE]
    ELSE IF ~env.load_ok
    THEN [self |-> [self EXCEPT !.embeddings = OpenAIEmbeddings],
          value |-> FALSE]
    ELSE [self |-> [vector_store |-> dir, embeddings |-> OpenAIEmbeddings],
          value |-> TRUE]

\* _build_vector_index: the index is assigned to vector_store, then saved.
_build_vector_index(self, dir, documents, env) ==
    IF ~env.index_ok
    THEN [self |-> self, dir |-> dir, raised |-> "Exception"]
    ELSE [self |-> [self EXCEPT !.vector_store = FAISS(documents)],
          dir |-> IF env.save_ok THEN FAISS(documents) ELSE dir,
          raised |-> IF env.save_ok THEN NoException ELSE "Exception"]

\* initialize, lines 307-322: the new index.
build_new_index(self, dir, env) ==
    IF ~env.embeddings_ok
    THEN [self |-> self, dir |-> dir, raised |-> "Exception"]
    ELSE _build_vector_index([self EXCEPT !.embeddings = OpenAIEmbeddings], dir,
                             _chunk_documents(_load_financial_datasets(env)),
                             env)

after_load_cached_index(loaded, dir, env) ==
    IF loaded.value
    THEN [self |-> loaded.self, dir |-> dir, raised |-> NoException]
    ELSE build_new_index(loaded.self, dir, env)

initialize_mutant(self, dir, env) ==
    build_new_index(self, dir, env)

\* RAGEngine.initialize
initialize(self, dir, env) ==
    IF self.vector_store # None
    THEN [self |-> self, dir |-> dir, raised |-> NoException]
    ELSE after_load_cached_index(_load_cached_index(self, dir, env), dir, env)

\* vector_store.similarity_search(query, k): the k documents nearest to the
\* query, fewer when the index holds fewer.  first: the document the
\* embedding of the query ranks first.
similarity_search_mutant(vector_store, k, first) ==
    vector_store.documents

similarity_search(vector_store, k, first) ==
    [i \in 1..Min(k, Len(vector_store.documents)) |->
        vector_store.documents[((first + i - 2) % Len(vector_store.documents)) + 1]]

\* search, lines 349-356: one result.
search_result(doc) ==
    [content |-> doc.page_content,
     source |-> DictGet(doc.metadata, "source", "unknown"),
     category |-> DictGet(doc.metadata, "category", "general"),
     doc_type |-> DictGet(doc.metadata, "doc_type", "unknown")]

\* search: after the initialisation, if it was needed.  sim: what the
\* similarity search does.
searched(initialised, k, sim) ==
    [self |-> initialised.self, dir |-> initialised.dir, raised |-> NoException,
     value |->
         IF \/ initialised.raised # NoException
            \/ initialised.self.vector_store = None
            \/ sim.raises
         THEN <<>>
         ELSE [i \in DOMAIN similarity_search(initialised.self.vector_store, k,
                                              sim.first) |->
                  search_result(similarity_search(initialised.self.vector_store,
                                                  k, sim.first)[i])]]

\* RAGEngine.search(query, k)
search(self, dir, query, k, env, sim) ==
    searched(IF self.vector_store = None THEN initialize(self, dir, env)
             ELSE [self |-> self, dir |-> dir, raised |-> NoException],
             k, sim)

(***************************************************************************)
(* The state after the modules are imported: AuditLogger.__init__ has      *)
(* logged SYSTEM_START, nobody is logged in.                               *)
(***************************************************************************)
\* app.py, initialize_session_state: the attributes a new browser session has.
\* A thread that is not in a call of the logger; completed: the calls of
\* log_audit, log_system_event and log_security_event it has returned from.
IdleThread(completed) ==
    [pc |-> "idle", op |-> None, record |-> None, completed |-> completed]

initialize_session_state ==
    [chat_history |-> <<>>, last_request |-> <<>>, processing |-> FALSE]

Returned(op, value) == [op |-> op, raised |-> NoException, value |-> value]
Raised(op, error, value) == [op |-> op, raised |-> error, value |-> value]

Init ==
    /\ current_session = None
    /\ role_permissions = InitialRolePermissions
    /\ LET logs == logged_system_event([file |-> <<>>, buffer |-> <<>>],
                                        "SYSTEM_START",
                                        "audit log system initialised", EmptyDict)
       IN /\ memory_buffer = logs.buffer
          /\ log_file = logs.file
    /\ call = None
    /\ report_files = <<>>
    /\ session_state = initialize_session_state
    /\ AGENT_SESSION_STATE = InitialAgentSessionState
    /\ agent_calls = <<>>
    /\ user_agent = None
    /\ rag_engine = NewRAGEngine
    /\ vector_store_dir = None
    /\ lock = FALSE
    /\ threads = [t \in 1..NumThreads |-> IdleThread(0)]
    /\ ret = Returned("init", None)

(***************************************************************************)
(* The logger's operations, called with the arguments below.               *)
(***************************************************************************)
LogUsers == { <<"k","i","m">>, <<"s","e","n","i","o","r">> }
LogSeverities == {"INFO", "WARNING", "CRITICAL"}
LogDetails == { EmptyDict, [k \in {"export_path"} |-> Str(<<"/","t","m","p">>)] }
RecentCounts == {0, 1, 5, 20, 100, 101}

\* The workload of LogSpec: the first MaxVaried calls choose the operation
\* and its arguments freely, the later ones repeat the three operations in
\* turn with fixed arguments.
MayLog(kind) ==
    /\ Len(log_file) < MaxLogLines
    /\ Len(log_file) <= MaxVaried \/ kind = Len(log_file) % 3

Fixed(choices, fixed) == IF Len(log_file) <= MaxVaried THEN choices ELSE {fixed}

LogAudit ==
    /\ MayLog(0)
    /\ \E user_id \in Fixed(LogUsers, <<"k","i","m">>) :
           log_audit(user_id, "USER_ACTION", EmptyDict)
    /\ ret' = Returned("log_audit", None)
    /\ UNCHANGED <<authVars, toolVars, appVars>>

LogSystemEvent ==
    /\ MayLog(1)
    /\ \E details \in Fixed(LogDetails, EmptyDict) :
           log_system_event("LOG_EXPORT", "audit log exported", details)
    /\ ret' = Returned("log_system_event", None)
    /\ UNCHANGED <<authVars, toolVars, appVars>>

LogSecurityEvent ==
    /\ MayLog(2)
    /\ \E severity \in Fixed(LogSeverities, "WARNING") :
           log_security_event(<<"k","i","m">>, "INPUT_BLOCKED",
                              "dangerous input blocked", severity, EmptyDict)
    /\ ret' = Returned("log_security_event", None)
    /\ UNCHANGED <<authVars, toolVars, appVars>>

GetRecentLogs ==
    /\ \E count \in RecentCounts :
           ret' = [op |-> "get_recent_logs", raised |-> NoException, count |-> count,
                   value |-> get_recent_logs(memory_buffer, count)]
    /\ UNCHANGED <<authVars, logVars, toolVars, appVars>>

LogNext == LogAudit \/ LogSystemEvent \/ LogSecurityEvent \/ GetRecentLogs

LogSpec == Init /\ [][LogNext]_vars

(***************************************************************************)
(* C9.  The memory buffer never holds more than 100 records, and it is     *)
(* always the most recent (at most 100) records in logging order: its i-th *)
(* record is the record of the i-th of the last Len(memory_buffer) lines   *)
(* written to the log, unchanged.                                          *)
(***************************************************************************)
C9_BufferIsMostRecentRecords ==
    /\ Len(memory_buffer) <= 100
    /\ Len(memory_buffer) = Min(Len(log_file), 100)
    /\ \A i \in 1..Len(memory_buffer) :
           LET line == log_file[Len(log_file) - Len(memory_buffer) + i]
           IN /\ memory_buffer[i].timestamp = line.asctime
              /\ memory_buffer[i].formatted_message = line.message

\* A full buffer has evicted its oldest records: the first record kept is
\* no longer the SYSTEM_START record.
C9_Witness ==
    /\ Len(log_file) > 101
    /\ Len(memory_buffer) = 100
    /\ memory_buffer[1].timestamp = Len(log_file) - 100
    /\ memory_buffer[100].timestamp = Len(log_file) - 1

(***************************************************************************)
(* C10.  get_recent_logs(count) returns at most count records, namely the  *)
(* count most recently logged buffer entries in chronological order, for   *)
(* every count >= 0, and leaves the buffer alone.                          *)
(***************************************************************************)
C10_RecentLogsAtMostCount ==
    ret.op = "get_recent_logs" =>
        LET n == Min(ret.count, Len(memory_buffer))
        IN /\ Len(ret.value) <= ret.count
           /\ ret.value =
                  SubSeq(memory_buffer, Len(memory_buffer) - n + 1,
                         Len(memory_buffer))

(***************************************************************************)
(* The operations of the portal.  auth_manager and audit_logger are        *)
(* module-level objects shared by every browser session, so logins and     *)
(* logouts of other sessions may happen between the steps of a tool call.  *)
(***************************************************************************)
UserIds ==
    { <<"k","i","m">>, <<"S","e","n","i","o","r">>, <<"s","e","n","i","o">> }

CheckedPermissions == {"search_web", "save_report", "delete_report"}

NoKwargs == [k \in {} |-> <<>>]
AQuery == <<"A","I">>
ASymbol == <<"A","A","P","L">>
ATitle == <<"Q","3","!"," ","-"," ","x">>
AContent == <<"o","k">>

BlankTitle == <<" ">>

\* The reports asked to be saved: a good one and one with a blank title.
Reports ==
    { [title |-> ATitle, content |-> AContent],
      [title |-> BlankTitle, content |-> AContent] }

\* The calls made: app.py passes positional arguments, the agents keyword
\* arguments; one call leaves an argument out.
ToolInvocations ==
    { [tool |-> "search_internal", args |-> <<AQuery>>, kwargs |-> NoKwargs],
      [tool |-> "search_web", args |-> <<>>, kwargs |-> [query |-> AQuery]],
      [tool |-> "get_stock_price", args |-> <<ASymbol>>, kwargs |-> NoKwargs],
      [tool |-> "get_market_summary", args |-> <<>>, kwargs |-> NoKwargs],
      [tool |-> "save_report", args |-> <<>>,
       kwargs |-> [title |-> <<"Q","3">>]] }
    \union
    { [tool |-> "save_report", args |-> <<>>, kwargs |-> r] : r \in Reports }

\* login(user_id)
Login ==
    /\ \E user_id \in UserIds :
           /\ current_session' = NewSession(user_id, role_permissions)
           /\ ret' = [op |-> "login", raised |-> NoException, user_id |-> user_id,
                      had_session |-> current_session # None,
                      value |-> NewSession(user_id, role_permissions)]
    /\ UNCHANGED <<role_permissions, logVars, toolVars, appVars>>

\* logout()
Logout ==
    /\ current_session' = None
    /\ ret' = Returned("logout", None)
    /\ UNCHANGED <<role_permissions, logVars, toolVars, appVars>>

\* check_permission(permission), called directly.
CheckPermission ==
    /\ \E permission \in CheckedPermissions :
           LET outcome == check_permission(current_session, permission)
           IN ret' = [op |-> "check_permission", permission |-> permission,
                      raised |-> outcome.raised, value |-> outcome.value]
    /\ UNCHANGED <<authVars, logVars, toolVars, appVars>>

ToolCallsMade == Len(log_file) \div 2

\* wrapper, lines 53-67: read the user, log TOOL_CALL_<NAME>.
wrapper_call ==
    /\ call = None
    /\ ToolCallsMade < MaxToolCalls
    /\ \E inv \in ToolInvocations :
           LET user_id == wrapper_user_id(current_session)
           IN /\ call' = [tool |-> inv.tool, args |-> inv.args,
                          kwargs |-> inv.kwargs, user_id |-> user_id,
                          start_time |-> Now, pc |-> "body", outcome |-> None]
              /\ SetLogs(wrapper_logs_call(TheLogs, user_id, inv.tool, inv.kwargs))
    /\ UNCHANGED <<authVars, report_files, ragVars, lockVars, appVars, ret>>

\* wrapper, line 71: result = func(*args, **kwargs)
wrapper_body ==
    /\ call # None
    /\ call.pc = "body"
    /\ \E found \in BOOLEAN, fault \in Faults :
           LET out == ToolBody(call.tool, call.args, call.kwargs,
                               current_session, found, fault, Now)
           IN /\ call' = [call EXCEPT !.pc = "done", !.outcome = out.outcome]
              /\ report_files' =
                     IF out.write = None THEN report_files
                     ELSE Append(report_files, out.write)
    /\ UNCHANGED <<authVars, logVars, ragVars, lockVars, appVars, ret>>

\* wrapper, lines 73-105: log the success and return the result, or catch
\* the exception, log TOOL_ERROR and return the error string.
wrapper_return ==
    /\ call # None
    /\ call.pc = "done"
    /\ LET user_id == record_user_id(call, current_session)
           raised == call.outcome.raised
           seen == [op |-> "tool", tool |-> call.tool,
                    start_time |-> call.start_time, body_raised |-> raised]
       IN IF raised = NoException
          THEN /\ SetLogs(wrapper_logs_success(TheLogs, user_id, call.tool,
                                                call.start_time))
               /\ ret' = [raised |-> NoException, value |-> call.outcome.value]
                             @@ seen
          ELSE IF IsException(raised)
          THEN /\ SetLogs(wrapper_logs_error(TheLogs, user_id, call.tool,
                                              call.start_time, raised,
                                              call.outcome.value))
               /\ ret' = [raised |-> NoException,
                          value |-> <<"tool error: ", call.outcome.value>>]
                             @@ seen
          ELSE /\ ret' = [raised |-> raised, value |-> call.outcome.value] @@ seen
               /\ UNCHANGED logVars
    /\ call' = None
    /\ UNCHANGED <<authVars, report_files, ragVars, lockVars, appVars>>

Next ==
    \/ Login
    \/ Logout
    \/ CheckPermission
    \/ wrapper_call
    \/ wrapper_body
    \/ wrapper_return

Spec == Init /\ [][Next]_vars

(***************************************************************************)
(* app.py: the request form of the dashboard and its handler.              *)
(***************************************************************************)
SafeRequest ==
    <<"sam","seong","jeon","ja"," ","bun","seok">>

BlacklistedRequest ==
    <<"nae","bu","jeong","bo"," ","al","ryeo","jwo">>

BlankRequest == <<" "," ">>

Requests == {SafeRequest, BlacklistedRequest, BlankRequest}

MaxRequests == 1

\* The environment of the process: without OPENAI_API_KEY, or with a key.
NoEnviron == [name \in {} |-> <<>>]

KeyEnviron == [name \in {"OPENAI_API_KEY"} |-> <<"s","k","-","l","i","v","e">>]

\* What the moderation service may do for one call.
ModerationApis ==
    { [status |-> "disabled"], [status |-> "error"],
      [status |-> "ok", flagged |-> FALSE, categories |-> NoCategories,
       category_scores |-> NoScores],
      [status |-> "ok", flagged |-> TRUE,
       categories |-> [c \in {"violence"} |-> TRUE],
       category_scores |-> [c \in {"violence"} |-> 900]] }

\* render_dashboard_tab, lines 377-378, and process_multi_agent_request:
\* the form hands a request that is not blank to the handler, which creates
\* the agents, has them process the request and stores the result.  The
\* handler is reached by a logged-in user only (render_main_interface).
\* last_collaboration_log is the list of AGENT_SESSION_STATE itself; the
\* time of processing is left out.
process_multi_agent_request ==
    /\ is_logged_in(current_session)
    /\ Len(session_state.chat_history) < MaxRequests
    /\ \E user_request \in Requests, environ \in {NoEnviron, KeyEnviron},
          llm \in LlmRuns :
           /\ strip(user_request) # <<>>
           /\ NoApiKey(environ) => llm = [searches |-> FALSE, raises |-> FALSE]
           /\ user_agent' =
                  QuantXMultiAgent(ManagerAgent(environ, TRUE, {},
                                                current_session.user_id))
           /\ \E done \in
                  { process_request(
                        create_agent(AGENT_SESSION_STATE, current_session.user_id),
                        TheLogs, current_session, user_agent', user_request,
                        llm) } :
                  /\ session_state' =
                         [processing |-> FALSE,
                          last_request |-> user_request,
                          last_result |-> done.text,
                          is_demo_mode |-> user_agent'.is_demo_mode,
                          last_collaboration_log |->
                              done.agent_state.collaboration_log,
                          chat_history |->
                              Append(session_state.chat_history,
                                     [request |-> user_request,
                                      response |-> done.text,
                                      success |-> TRUE,
                                      is_reanalysis |-> FALSE])]
                  /\ AGENT_SESSION_STATE' = done.agent_state
                  /\ SetLogs(done.logs)
                  /\ agent_calls' =
                         Append(agent_calls,
                                [request |-> user_request,
                                 response |-> done.text])
    /\ ret' = Returned("process_multi_agent_request", None)
    /\ UNCHANGED <<authVars, toolVars>>

AppNext ==
    \/ Login
    \/ Logout
    \/ process_multi_agent_request

AppSpec == Init /\ [][AppNext]_vars

(***************************************************************************)
(* C1.  Every request handed to the agents passed the input check: no      *)
(* request for which check_input gives is_safe = False, whatever the       *)
(* moderation service answers, is passed to process_request.               *)
(***************************************************************************)
C1_UnsafeRequestNeverReachesAgent ==
    \A i \in DOMAIN agent_calls :
        \E api \in ModerationApis :
            check_input(agent_calls[i].request, api).is_safe

(***************************************************************************)
(* C2.  The result stored for display is the filtered content that         *)
(* filter_output gives for the response of the agents, never the raw       *)
(* response.                                                               *)
(***************************************************************************)
C2_StoredResultIsFiltered ==
    "last_result" \in DOMAIN session_state =>
        \E api \in ModerationApis :
            session_state.last_result =
                filter_output(agent_calls[Len(agent_calls)].response,
                              api).filtered_content

(***************************************************************************)
(* C3.  save_report writes a report file only when the current session's   *)
(* role is SENIOR_MANAGER: run with no session or with a JUNIOR_ANALYST    *)
(* session, its body returns the permission-denied message and writes no   *)
(* file, whatever the title and the content; and no step of the program    *)
(* writes a report file unless a SENIOR_MANAGER is logged in.              *)
(***************************************************************************)
IsSenior(session) == session # None /\ session.role = SENIOR_MANAGER

RunsSaveReport ==
    /\ call # None
    /\ call.pc = "body"
    /\ call.tool = "save_report"
    /\ Binds(call.tool, call.args, call.kwargs)
    /\ call' # None
    /\ call'.pc = "done"

C3_SaveReportStep ==
    /\ report_files' # report_files => IsSenior(current_session)
    /\ RunsSaveReport /\ ~IsSenior(current_session) =>
           /\ report_files' = report_files
           /\ call'.outcome.raised = NoException
           /\ call'.outcome.value[1] = "PERMISSION DENIED "

C3_SaveReportOnlyBySeniorManager == [][C3_SaveReportStep]_vars

\* A junior analyst's save_report with a blank title has just been refused
\* with the permission-denied message, and no file exists.
C3_Witness ==
    /\ call # None
    /\ call.pc = "done"
    /\ call.tool = "save_report"
    /\ DOMAIN call.kwargs = {"title", "content"}
    /\ call.kwargs.title = BlankTitle
    /\ current_session # None
    /\ current_session.role = JUNIOR_ANALYST
    /\ call.outcome.value[1] = "PERMISSION DENIED "
    /\ report_files = <<>>

(***************************************************************************)
(* C4.  login(user_id) creates a session whose role is SENIOR_MANAGER      *)
(* exactly when the lower-cased user_id contains 'senior' and              *)
(* JUNIOR_ANALYST otherwise, whose permissions are the static table row of *)
(* that role, and which replaces any session that was active; the static   *)
(* table is never changed.                                                 *)
(***************************************************************************)
C4_LoginAssignsRoleAndPermissions ==
    /\ role_permissions = InitialRolePermissions
    /\ ret.op = "login" =>
           LET role == IF Contains(str_lower(ret.user_id), senior)
                       THEN SENIOR_MANAGER
                       ELSE JUNIOR_ANALYST
           IN /\ current_session # None
              /\ current_session = ret.value
              /\ current_session.user_id = ret.user_id
              /\ current_session.role = role
              /\ current_session.permissions = InitialRolePermissions[role]

\* "Senior" has logged in while another session was active, and is a
\* SENIOR_MANAGER who may save reports.
C4_Witness ==
    /\ ret.op = "login"
    /\ ret.had_session
    /\ ret.user_id = <<"S","e","n","i","o","r">>
    /\ current_session.role = SENIOR_MANAGER
    /\ current_session.permissions["save_report"]

(***************************************************************************)
(* C5.  check_permission(p) raises PermissionError when no session is      *)
(* active, and when the active session's permission p is False or p is not *)
(* a known permission name; otherwise it returns True.  It never returns   *)
(* False and never changes the session.                                    *)
(***************************************************************************)
C5_CheckPermissionStep ==
    ret'.op = "check_permission" =>
        LET p == ret'.permission
            granted ==
                /\ current_session # None
                /\ p \in PermissionNames
                /\ InitialRolePermissions[current_session.role][p]
        IN /\ current_session' = current_session
           /\ granted => ret'.raised = NoException /\ ret'.value = TRUE
           /\ ~granted => ret'.raised = "PermissionError"

C5_CheckPermissionRaisesOrTrue == [][C5_CheckPermissionStep]_vars

\* A junior analyst has been refused a permission name nobody knows.
C5_Witness ==
    /\ ret.op = "check_permission"
    /\ ret.permission = "delete_report"
    /\ current_session # None
    /\ current_session.role = JUNIOR_ANALYST
    /\ ret.raised = "PermissionError"

(***************************************************************************)
(* The records of tool calls in the memory buffer.  Under Spec only the    *)
(* wrapper logs, and the buffer never fills, so record i of the buffer is  *)
(* the record logged at time i - 1.                                        *)
(***************************************************************************)
IsSecurityEvent(record) == "severity" \in DOMAIN record

IsToolCallRecord(record, tool) ==
    /\ ~IsSecurityEvent(record)
    /\ record.action = <<"TOOL_CALL_", NameUpper(tool)>>

IsToolSuccessRecord(record, tool) ==
    /\ ~IsSecurityEvent(record)
    /\ record.action = <<"TOOL_SUCCESS_", NameUpper(tool)>>

IsToolErrorRecord(record, tool) ==
    /\ IsSecurityEvent(record)
    /\ record.action = <<"LOCK ", "TOOL_ERROR">>
    /\ record.details["tool_name"] = Lit(tool)

(***************************************************************************)
(* C6.  Every call of a wrapped tool appends a TOOL_CALL_<NAME> audit      *)
(* record before the tool body runs, and after the body exactly one of a   *)
(* TOOL_SUCCESS_<NAME> audit record (body returned) or a TOOL_ERROR        *)
(* security event (body raised); the records of one call carry the same    *)
(* user id, the one read when the call started ('anonymous' when no        *)
(* session was active).                                                    *)
(***************************************************************************)
\* While the body has not returned to the wrapper, the TOOL_CALL record is
\* the last record; between calls the records after SYSTEM_START are pairs.
C6_RecordsOfCallInProgress ==
    IF call # None
    THEN /\ Len(memory_buffer) = call.start_time + 1
         /\ IsToolCallRecord(memory_buffer[Len(memory_buffer)], call.tool)
         /\ memory_buffer[Len(memory_buffer)].user_id = call.user_id
    ELSE Len(memory_buffer) % 2 = 1

\* The records of the call that returned last.
C6_RecordsOfFinishedCall ==
    ret.op = "tool" =>
        LET first == memory_buffer[ret.start_time + 1]
            second == memory_buffer[ret.start_time + 2]
        IN /\ IsToolCallRecord(first, ret.tool)
           /\ ret.body_raised = NoException => IsToolSuccessRecord(second, ret.tool)
           /\ ret.body_raised # NoException => IsToolErrorRecord(second, ret.tool)
           /\ second.user_id = first.user_id
           /\ Len(memory_buffer) > ret.start_time + 2 =>
                  \E tool \in ToolNames :
                      IsToolCallRecord(memory_buffer[ret.start_time + 3], tool)

\* The step that starts a call logs the user of the session active then.
C6_CallStartStep ==
    call = None /\ call' # None =>
        /\ Len(memory_buffer') = Len(memory_buffer) + 1
        /\ memory_buffer'[Len(memory_buffer')].user_id =
               IF current_session = None THEN anonymous ELSE current_session.user_id
        /\ report_files' = report_files

C6_ToolCallIsRecorded ==
    /\ [](C6_RecordsOfCallInProgress /\ C6_RecordsOfFinishedCall)
    /\ [][C6_CallStartStep]_vars

\* A call started by kim has returned while nobody was logged in any more,
\* and both its records carry kim's id.
C6_Witness ==
    /\ ret.op = "tool"
    /\ ret.body_raised = NoException
    /\ call = None
    /\ current_session = None
    /\ Len(memory_buffer) = ret.start_time + 2
    /\ memory_buffer[ret.start_time + 1].user_id = <<"k","i","m">>
    /\ memory_buffer[ret.start_time + 2].user_id = <<"k","i","m">>

(***************************************************************************)
(* C7.  An exception raised by a wrapped tool body never propagates to the *)
(* caller: the wrapper returns an error string, appends a TOOL_ERROR       *)
(* security event with severity WARNING, and appends no TOOL_SUCCESS       *)
(* record for that call.                                                   *)
(***************************************************************************)
C7_BodyExceptionIsCaught ==
    ret.op = "tool" /\ ret.body_raised # NoException =>
        LET second == memory_buffer[ret.start_time + 2]
        IN /\ ret.raised = NoException
           /\ ret.value[1] = "tool error: "
           /\ IsToolErrorRecord(second, ret.tool)
           /\ second.severity = "WARNING"
           /\ log_file[ret.start_time + 2].levelname = "WARNING"
           /\ \A i \in {ret.start_time + 1, ret.start_time + 2} :
                  ~IsToolSuccessRecord(memory_buffer[i], ret.tool)

\* save_report was called without its content: the call raised TypeError
\* and the wrapper returned the error string.
C7_Witness ==
    /\ ret.op = "tool"
    /\ ret.tool = "save_report"
    /\ ret.body_raised = "TypeError"
    /\ ret.raised = NoException
    /\ ret.value[1] = "tool error: "
    /\ memory_buffer[ret.start_time + 2].severity = "WARNING"

(***************************************************************************)
(* C8.  A tool call that is refused for lack of permission (no session, or *)
(* the session's role lacks the tool's permission) is recorded in the      *)
(* audit log as a security event for that user, not as a successful tool   *)
(* execution.                                                              *)
(***************************************************************************)
\* The tool returned one of the two messages built from check_permission's
\* PermissionError.
IsRefusal(value) ==
    /\ value[1] \in {"permission error: ", "PERMISSION DENIED "}
    /\ value[2] \in {"login_required", "no_permission"}

C8_RefusalIsSecurityEvent ==
    ret.op = "tool" /\ ret.body_raised = NoException /\ IsRefusal(ret.value) =>
        LET second == memory_buffer[ret.start_time + 2]
        IN /\ IsSecurityEvent(second)
           /\ ~IsToolSuccessRecord(second, ret.tool)

(***************************************************************************)
(* The masking of the logger, called with the details below: dictionaries  *)
(* of one key, nested up to three deep, and one of two keys.               *)
(***************************************************************************)
MaxMaskLogs == 1

MaskLeaves ==
    { Str(<<"a","b","c","d">>), Str(<<"a","b","c","d","e">>),
      Str(<<"s","e","c","r","e","t","1","2","3">>), Num(7),
      List(<< Dict([k \in {"Password"} |->
                       Str(<<"s","e","c","r","e","t","1","2","3">>)]) >>) }

MaskKeys == {"Password", "API_KEY", "user_token", "note"}

MaskFlat == { [k \in {key} |-> v] : key \in MaskKeys, v \in MaskLeaves }

MaskNested ==
    { [k \in {key} |-> Dict(d)] : key \in {"nested", "secret_box"}, d \in MaskFlat }

MaskDeep ==
    { [k \in {"nested"} |-> Dict(d)] :
          d \in { n \in MaskNested :
                      \E f \in MaskFlat :
                          /\ n = [k \in {"nested"} |-> Dict(f)]
                          /\ f \in { [k \in {key} |-> Str(<<"a","b","c","d","e">>)] :
                                         key \in MaskKeys } } }

MaskInputs ==
    MaskFlat \cup MaskNested \cup MaskDeep
        \cup { [k \in {"Password", "note"} |->
                   Str(<<"s","e","c","r","e","t","1","2","3">>)] }

\* _mask_sensitive_data(data), called directly.
MaskSensitiveData ==
    /\ Len(log_file) = 1
    /\ \E data \in MaskInputs :
           ret' = [op |-> "_mask_sensitive_data", raised |-> NoException,
                   data |-> data, value |-> _mask_sensitive_data(data)]
    /\ UNCHANGED <<authVars, logVars, toolVars, appVars>>

\* log_audit, log_system_event or log_security_event, called with details.
MaskLog ==
    /\ Len(log_file) <= MaxMaskLogs
    /\ \E details \in MaskInputs \cup {EmptyDict} :
           /\ \/ log_audit(<<"k","i","m">>, "USER_ACTION", details)
              \/ log_system_event("LOG_EXPORT", "audit log exported", details)
              \/ log_security_event(<<"k","i","m">>, "LOGIN_FAILED",
                                    "login failed", "WARNING", details)
           /\ ret' = [op |-> "log", raised |-> NoException, value |-> None,
                      details |-> details]
    /\ UNCHANGED <<authVars, toolVars, appVars>>

MaskNext ==
    \/ MaskSensitiveData
    \/ MaskLog

MaskSpec == Init /\ [][MaskNext]_vars

(***************************************************************************)
(* C11.  _mask_sensitive_data masks, at every depth of nested              *)
(* dictionaries, the value of every key whose lower-cased name contains a  *)
(* sensitive keyword: a string longer than 4 characters keeps its first    *)
(* two and last two characters, the middle replaced by '*' at equal        *)
(* length; any other value becomes '***MASKED***'.  The values of all      *)
(* other keys are unchanged.  The details stored in the buffer and written *)
(* to the log file are these masked details.                               *)
(***************************************************************************)
C11_NameIsSensitive(key) ==
    \E sensitive \in sensitive_keys :
        Contains(str_lower(KeySpelling(key)), sensitive)

\* out is value with its middle replaced by stars.
C11_MiddleStarred(value, out) ==
    /\ Len(out) = Len(value)
    /\ \A i \in 1..Len(value) :
           out[i] = IF i <= 2 \/ i > Len(value) - 2 THEN value[i] ELSE "*"

RECURSIVE C11_MaskedAs(_, _)
C11_MaskedAs(data, out) ==
    /\ DOMAIN out = DOMAIN data
    /\ \A key \in DOMAIN data :
           IF C11_NameIsSensitive(key)
           THEN /\ out[key].t = "str"
                /\ IF data[key].t = "str" /\ Len(data[key].v) > 4
                   THEN C11_MiddleStarred(data[key].v, out[key].v)
                   ELSE out[key].v = MASKED
           ELSE /\ out[key].t = data[key].t
                /\ IF data[key].t = "dict"
                   THEN C11_MaskedAs(data[key].v, out[key].v)
                   ELSE out[key].v = data[key].v

C11_LastRecord == memory_buffer[Len(memory_buffer)]

C11_SensitiveDataIsMasked ==
    /\ ret.op = "_mask_sensitive_data" => C11_MaskedAs(ret.data, ret.value)
    /\ ret.op = "log" =>
           /\ C11_MaskedAs(ret.details, C11_LastRecord.details)
           /\ log_file[Len(log_file)].message = C11_LastRecord.formatted_message
           /\ DOMAIN ret.details # {} =>
                  LET message == C11_LastRecord.formatted_message
                  IN /\ message[Len(message) - 1] = " | DETAILS:"
                     /\ C11_MaskedAs(ret.details, message[Len(message)])

\* A secret three dictionaries deep was logged: the record holds the masked
\* string where the caller's details hold the secret.
C11_Witness ==
    /\ ret.op = "log"
    /\ "nested" \in DOMAIN ret.details
    /\ "nested" \in DOMAIN ret.details["nested"].v
    /\ "API_KEY" \in DOMAIN ret.details["nested"].v["nested"].v
    /\ ret.details["nested"].v["nested"].v["API_KEY"].v = <<"a","b","c","d","e">>
    /\ C11_LastRecord.details["nested"].v["nested"].v["API_KEY"].v =
           <<"a","b","*","d","e">>

(***************************************************************************)
(* core/guardrails.py: check_input and filter_output as they are called,   *)
(* with the security event or audit record they log.                       *)
(***************************************************************************)
InputPreviewLen == 100

BoolText(b) == IF b THEN "True" ELSE "False"

ModerationFlagged(result) ==
    IF result.moderation_result = None THEN FALSE
    ELSE result.moderation_result.flagged

\* check_input, lines 323-339: a blocked input is logged as INPUT_BLOCKED.
check_input_logs(logs, user_id, user_input, result) ==
    IF result.risk_level # BLOCKED THEN logs
    ELSE logged_security_event(logs, user_id, "INPUT_BLOCKED",
             "dangerous input blocked", "WARNING",
             [k \in {"input_length", "detected_issues", "security_layers",
                     "moderation_flagged", "input_preview"} |->
                 CASE k = "input_length" -> Num(Len(user_input))
                   [] k = "detected_issues" -> List(result.detected_issues)
                   [] k = "security_layers" -> List(result.security_layers)
                   [] k = "moderation_flagged" ->
                          Lit(BoolText(ModerationFlagged(result)))
                   [] k = "input_preview" ->
                          Str(IF Len(user_input) > InputPreviewLen
                              THEN SubSeq(user_input, 1, InputPreviewLen)
                                       \o <<".",".",".">>
                              ELSE user_input)])

\* filter_output, lines 445-471: a blocked output is logged as
\* OUTPUT_BLOCKED, a modified one as OUTPUT_FILTERED.
filter_output_logs(logs, user_id, output, result) ==
    IF result.risk_level = BLOCKED
    THEN logged_security_event(logs, user_id, "OUTPUT_BLOCKED",
             "dangerous output blocked", "CRITICAL",
             [k \in {"output_length", "detected_issues", "security_layers",
                     "moderation_flagged"} |->
                 CASE k = "output_length" -> Num(Len(output))
                   [] k = "detected_issues" -> List(result.detected_issues)
                   [] k = "security_layers" -> List(result.security_layers)
                   [] k = "moderation_flagged" ->
                          Lit(BoolText(ModerationFlagged(result)))])
    ELSE IF result.risk_level = WARNING
    THEN logged_audit(logs, user_id, "OUTPUT_FILTERED",
             [k \in {"detected_issues", "modifications_made"} |->
                 CASE k = "detected_issues" -> List(result.detected_issues)
                   [] k = "modifications_made" ->
                          Num(Len(result.detected_issues))])
    ELSE logs

MaxGuardLogs == 1

GuardSafeInput ==
    <<"sam","seong","jeon","ja"," ","sil","jeok">>

GuardUpperKeyword ==
    <<"X","S","S"," ","a","t","t","a","c","k">>

GuardPassword ==
    <<"p","a","s","s","w","o","r","d","=","a","b","c","1","2","3","4">>

GuardCardNumber ==
    <<"1","2","3","4","-","5","6","7","8","-","9","0","1","2","-","3","4",
      "5","6">>

GuardSpecialChars ==
    <<"!","!","!","?","?","?">>

GuardBlank ==
    <<" "," ">>

OutPlain ==
    <<"sam","seong","jeon","ja"," ","sil","jeok">>

OutFinancial ==
    <<"sam","seong","jeon","ja"," ","ju","sik"," ","bun","seok">>

OutProfitGuarantee ==
    <<"su","ik","bo","jang">>

OutPrincipalGuarantee ==
    <<"won","geum","bo","jang"," ","sang","pum">>

OutTwoPhrases ==
    <<"mu","jo","geon"," ","sa","se","yo">>

OutGuarantee ==
    <<"bo","jang">>

OutStrongRecommend ==
    <<"gang","ryeok","chu","cheon">>

OutRecommend ==
    <<"chu","cheon","hap","ni","da">>

OutPasswordStock ==
    <<"ju","sik"," ","p","a","s","s","w","o","r","d","=","a","b","c","1",
      "2","3","4">>

OutCertain ==
    <<"hwak","sil","han"," ","su","ik">>


LongInput == [i \in 1..(InputMaxLen + 1) |-> "a"]

GuardInputs ==
    { GuardSafeInput, GuardUpperKeyword, BlacklistedRequest, GuardPassword,
      GuardCardNumber, GuardSpecialChars, GuardBlank, <<>> }

GuardOutputs ==
    { OutPlain, OutFinancial, OutProfitGuarantee, OutPrincipalGuarantee,
      OutTwoPhrases, OutGuarantee, OutStrongRecommend, OutRecommend,
      GuardPassword, OutPasswordStock, OutCertain, GuardBlank }

\* user_id: "unknown" is the default of both methods.
GuardUsers == { <<"u","n","k","n","o","w","n">>, <<"k","i","m">> }

\* check_input(user_input, user_id); the over-long input is given first, on a
\* fresh log.
CheckInput ==
    /\ Len(log_file) <= MaxGuardLogs
    /\ \E user_id \in GuardUsers, api \in ModerationApis,
          user_input \in GuardInputs
                           \cup (IF Len(log_file) = 1 /\ ret.op = "init"
                                 THEN {LongInput} ELSE {}) :
           \E result \in {check_input(user_input, api)} :
               /\ SetLogs(check_input_logs(TheLogs, user_id, user_input, result))
               /\ ret' = result @@ [op |-> "check_input", raised |-> NoException,
                                    user_input |-> user_input, api |-> api,
                                    user_id |-> user_id]
    /\ UNCHANGED <<authVars, toolVars, appVars>>

\* filter_output(output, user_id)
FilterOutput ==
    /\ Len(log_file) <= MaxGuardLogs
    /\ \E output \in GuardOutputs, api \in ModerationApis, user_id \in GuardUsers :
           \E result \in {filter_output(output, api)} :
               /\ SetLogs(filter_output_logs(TheLogs, user_id, output, result))
               /\ ret' = result @@ [op |-> "filter_output", raised |-> NoException,
                                    output |-> output, api |-> api,
                                    user_id |-> user_id]
    /\ UNCHANGED <<authVars, toolVars, appVars>>

GuardNext ==
    \/ CheckInput
    \/ FilterOutput

GuardSpec == Init /\ [][GuardNext]_vars

(***************************************************************************)
(* C12.  check_input gives risk level BLOCKED whenever the input contains  *)
(* a blacklist keyword in any letter case, matches a suspicious pattern,   *)
(* or is longer than 10,000 characters; and in every result of check_input *)
(* and filter_output is_safe is True exactly when risk_level is not        *)
(* BLOCKED.                                                                *)
(***************************************************************************)
C12_SameLetters(text, i, keyword) ==
    \A j \in 1..Len(keyword) : LowerChar(text[i + j - 1]) = keyword[j]

C12_HasBlacklistKeyword(text) ==
    \E n \in DOMAIN input_blacklist :
        \E i \in 1..(Len(text) - Len(input_blacklist[n]) + 1) :
            C12_SameLetters(text, i, input_blacklist[n])

C12_MustBeBlocked(text) ==
    \/ Len(text) > 10000
    \/ C12_HasBlacklistKeyword(text)
    \/ \E n \in DOMAIN suspicious_patterns : re_search(suspicious_patterns[n], text)

C12_BlockedInputsAndSafeFlag ==
    /\ ret.op = "check_input" =>
           /\ C12_MustBeBlocked(ret.user_input) => ret.risk_level = BLOCKED
           /\ ret.is_safe <=> ret.risk_level # BLOCKED
    /\ ret.op = "filter_output" => (ret.is_safe <=> ret.risk_level # BLOCKED)

\* An input with the keyword xss in capitals was blocked.
C12_Witness ==
    /\ ret.op = "check_input"
    /\ ret.user_input = GuardUpperKeyword
    /\ ret.risk_level = BLOCKED
    /\ ~ret.is_safe

(***************************************************************************)
(* C13.  The moderation call (stage 2) is made only after all the stage-1  *)
(* checks, only when stage 1 did not give BLOCKED and the text is not      *)
(* blank; security_layers contains the AI moderation layer exactly when    *)
(* stage 2 ran, and moderation_result is None otherwise.                   *)
(***************************************************************************)
C13_InSeq(x, seq) == \E i \in DOMAIN seq : seq[i] = x

C13_IsBlank(text) == \A i \in DOMAIN text : IsSpace(text[i])

C13_ByModeration(issue) ==
    issue.kind \in {"AI moderation block", "AI moderation error",
                    "inappropriate content", "inappropriate output"}

\* What stage 1 alone decides BLOCKED.
C13_Stage1Blocked ==
    IF ret.op = "check_input" THEN C12_MustBeBlocked(ret.user_input)
    ELSE \E n \in DOMAIN suspicious_patterns :
             re_search(suspicious_patterns[n], ret.output)

C13_ModerationOnlyAfterStage1 ==
    ret.op \in {"check_input", "filter_output"} =>
        /\ Len(ret.moderated) <= 1
        /\ ret.moderated # <<>> =>
               /\ ~C13_Stage1Blocked
               /\ ~C13_IsBlank(ret.moderated[1])
               /\ ret.op = "check_input" => ret.moderated[1] = ret.user_input
        /\ C13_InSeq("AI moderation", ret.security_layers) <=> ret.moderated # <<>>
        /\ ret.moderated = <<>> => ret.moderation_result = None
        /\ ret.moderated # <<>> => ret.moderation_result # None
        /\ \A i, j \in DOMAIN ret.detected_issues :
               C13_ByModeration(ret.detected_issues[i])
                   /\ ~C13_ByModeration(ret.detected_issues[j]) => j < i

\* An input with many special characters, which stage 1 rates WARNING, went
\* on to stage 2 and was flagged there.
C13_Witness ==
    /\ ret.op = "check_input"
    /\ ret.user_input = GuardSpecialChars
    /\ ret.moderated = <<GuardSpecialChars>>
    /\ Len(ret.detected_issues) = 2
    /\ ret.moderation_result # None
    /\ ret.moderation_result.flagged

(***************************************************************************)
(* C14.  When AI moderation is not enabled the guardrail uses keyword      *)
(* filtering only: an input in which no stage-1 check finds anything is    *)
(* returned by check_input with risk level SAFE, no detected issues and    *)
(* the "input is safe" message.                                            *)
(***************************************************************************)
C14_Stage1FindsNothing(text) ==
    /\ ~C12_MustBeBlocked(text)
    /\ LET special == {i \in DOMAIN text : IsPunct(text[i])}
       IN 10 * Cardinality(special) <= 3 * Len(text)

C14_KeywordFilteringOnly ==
    ( /\ ret.op = "check_input"
      /\ ret.api.status = "disabled"
      /\ C14_Stage1FindsNothing(ret.user_input) ) =>
        /\ ret.risk_level = SAFE
        /\ ret.detected_issues = <<>>
        /\ ret.message = "input is safe"

(***************************************************************************)
(* C15.  Every compliance-violation phrase that has an entry in the        *)
(* replacement table and occurs in the output is replaced in               *)
(* filtered_content by its table entry, whichever other violation phrases  *)
(* occur.  (An occurrence counts for the longest table phrase it is part   *)
(* of; content replaced by the moderation block message is left aside.)    *)
(***************************************************************************)
C15_At(text, i, phrase) ==
    /\ i + Len(phrase) - 1 <= Len(text)
    /\ \A j \in 1..Len(phrase) : text[i + j - 1] = phrase[j]

C15_InsideLonger(text, i, phrase) ==
    \E n \in DOMAIN compliance_replacements :
        LET longer == compliance_replacements[n].phrase
        IN /\ Len(longer) > Len(phrase)
           /\ \E k \in 1..i : /\ C15_At(text, k, longer)
                              /\ i + Len(phrase) <= k + Len(longer)

C15_Occurs(text, phrase) ==
    \E i \in DOMAIN text :
        C15_At(text, i, phrase) /\ ~C15_InsideLonger(text, i, phrase)

C15_Has(text, phrase) == \E i \in DOMAIN text : C15_At(text, i, phrase)

C15_TablePhraseIsReplaced ==
    (ret.op = "filter_output" /\ ret.filtered_content # BLOCK_MESSAGE) =>
        \A n \in DOMAIN compliance_replacements :
            C15_Occurs(ret.output, compliance_replacements[n].phrase) =>
                C15_Has(ret.filtered_content,
                        compliance_replacements[n].replacement)

(***************************************************************************)
(* C16.  Whenever the output given to filter_output contains a financial   *)
(* term (a keyword of _needs_disclaimer) and the content is not replaced   *)
(* by the moderation block message, filtered_content ends with the         *)
(* financial disclaimer, appended exactly once; when the output contains   *)
(* no financial term no disclaimer is appended.                            *)
(***************************************************************************)
C16_HasFinancialTerm(text) ==
    \E n \in DOMAIN financial_keywords :
        \E i \in DOMAIN text :
            /\ i + Len(financial_keywords[n]) - 1 <= Len(text)
            /\ C12_SameLetters(text, i, financial_keywords[n])

C16_DisclaimerStarts(text) ==
    {i \in DOMAIN text : C15_At(text, i, financial_disclaimer)}

C16_DisclaimerIffFinancialTerm ==
    (ret.op = "filter_output" /\ ret.filtered_content # BLOCK_MESSAGE) =>
        LET starts == C16_DisclaimerStarts(ret.filtered_content)
            tail == Len(ret.filtered_content) - Len(financial_disclaimer) + 1
        IN IF C16_HasFinancialTerm(ret.output)
           THEN /\ starts = {tail}
                /\ tail > 2
                /\ ret.filtered_content[tail - 1] = "\n"
                /\ ret.filtered_content[tail - 2] = "\n"
           ELSE starts = {}

(***************************************************************************)
(* agents/core.py: create_agent and process_request as a caller uses       *)
(* them, under the environments below.                                     *)
(***************************************************************************)
MaxAgentsCreated == 1
MaxAgentRequests == 1

EmptyKeyEnviron == [name \in {"OPENAI_API_KEY"} |-> <<>>]

PlaceholderEnviron ==
    [name \in {"OPENAI_API_KEY"} |->
        <<"y","o","u","r","_","o","p","e","n","a","i","_","a","p","i","_","k",
          "e","y","_","h","e","r","e">>]

Environs == {NoEnviron, EmptyKeyEnviron, PlaceholderEnviron, KeyEnviron}

AgentClasses == {"ResearchAgent", "MarketAnalystAgent", "ManagerAgent"}

AgentUsers == { <<"k","i","m">> }

AgentRequests == {SafeRequest, BlacklistedRequest}

\* create_agent(user_id), in a process whose environment is environ.
CreateAgent ==
    /\ Len(SelectSeq(AGENT_SESSION_STATE.collaboration_log,
                     LAMBDA e : e.agent = "QuantXMultiAgent")) < MaxAgentsCreated
    /\ \E environ \in Environs, SMOLAGENTS_AVAILABLE \in BOOLEAN,
          init_raises \in SUBSET AgentClasses, user_id \in AgentUsers :
           /\ user_agent' =
                  QuantXMultiAgent(ManagerAgent(environ, SMOLAGENTS_AVAILABLE,
                                                init_raises, user_id))
           /\ AGENT_SESSION_STATE' = create_agent(AGENT_SESSION_STATE, user_id)
           /\ ret' = [op |-> "create_agent", raised |-> NoException,
                      value |-> None, environ |-> environ,
                      SMOLAGENTS_AVAILABLE |-> SMOLAGENTS_AVAILABLE,
                      init_raises |-> init_raises]
    /\ UNCHANGED <<authVars, logVars, toolVars, session_state, agent_calls>>

\* user_agent.process_request(request); AGENT_SESSION_STATE as it was before
\* the call is kept in the result.
ProcessRequest ==
    /\ user_agent # None
    /\ Len(agent_calls) < MaxAgentRequests
    /\ \E request \in AgentRequests, llm \in LlmRuns :
           \E done \in { process_request(AGENT_SESSION_STATE, TheLogs,
                                          current_session, user_agent, request,
                                          llm) } :
               /\ AGENT_SESSION_STATE' = done.agent_state
               /\ SetLogs(done.logs)
               /\ agent_calls' =
                      Append(agent_calls,
                             [request |-> request, response |-> done.text])
               /\ ret' = [op |-> "process_request", raised |-> NoException,
                          value |-> done.text, runs |-> done.runs,
                          request |-> request, llm |-> llm,
                          before |-> AGENT_SESSION_STATE,
                          environ |-> ret.environ]
    /\ UNCHANGED <<authVars, toolVars, session_state, user_agent>>

AgentNext ==
    \/ CreateAgent
    \/ ProcessRequest

AgentSpec == Init /\ [][AgentNext]_vars

(***************************************************************************)
(* C17.  When OPENAI_API_KEY is unset, empty or starts with "your_", the   *)
(* manager, research and analyst agents are all in demo mode (is_demo_mode *)
(* True, agent None) and process_request returns the canned demo report    *)
(* without a run of a language-model agent; and in every reachable state   *)
(* an agent that is not in demo mode has an underlying agent.              *)
(***************************************************************************)
C17_KeyMissing(environ) ==
    \/ "OPENAI_API_KEY" \notin DOMAIN environ
    \/ Len(environ["OPENAI_API_KEY"]) = 0
    \/ /\ Len(environ["OPENAI_API_KEY"]) >= 5
       /\ \A i \in 1..5 :
              environ["OPENAI_API_KEY"][i] = <<"y","o","u","r","_">>[i]

C17_Agents ==
    {user_agent.manager_agent, user_agent.manager_agent.research_agent,
     user_agent.manager_agent.analyst_agent}

C17_CannedReport(request) ==
    CombinedReport(request, user_agent.user_id, DemoResearchReport(request),
                   DemoAnalysisReport(request))

C17_DemoModeWithoutApiKey ==
    user_agent # None =>
        /\ \A a \in C17_Agents : ~a.is_demo_mode => a.agent # None
        /\ C17_KeyMissing(ret.environ) =>
               /\ \A a \in C17_Agents : a.is_demo_mode /\ a.agent = None
               /\ user_agent.is_demo_mode
               /\ ret.op = "process_request" =>
                      /\ ret.value = C17_CannedReport(ret.request)
                      /\ ret.runs = <<>>

\* With the placeholder key of the sample configuration a request was
\* answered by the canned report.
C17_Witness ==
    /\ user_agent # None
    /\ ret.op = "process_request"
    /\ ret.environ = PlaceholderEnviron
    /\ user_agent.manager_agent.research_agent.is_demo_mode
    /\ ret.value = C17_CannedReport(ret.request)
    /\ ret.runs = <<>>

(***************************************************************************)
(* C18.  For every request, in demo mode and in live mode alike,           *)
(* manage_request delegates in sequence: the research agent is called      *)
(* first, then the market-analyst agent, and the report is produced after  *)
(* both; each request adds exactly one entry to research_results and one   *)
(* to analysis_results.                                                    *)
(***************************************************************************)
C18_Added ==
    SubSeq(AGENT_SESSION_STATE.collaboration_log,
           Len(ret.before.collaboration_log) + 1,
           Len(AGENT_SESSION_STATE.collaboration_log))

C18_Starts(entry, agent, action) ==
    entry.agent = agent /\ entry.action = action /\ entry.value = ret.request

C18_SequentialDelegation ==
    ret.op = "process_request" =>
        /\ \E i, j \in DOMAIN C18_Added :
               /\ i < j
               /\ C18_Starts(C18_Added[i], "ResearchAgent", ACTION_RESEARCH_START)
               /\ C18_Starts(C18_Added[j], "MarketAnalystAgent",
                             ACTION_ANALYSIS_START)
        /\ Len(AGENT_SESSION_STATE.research_results)
               = Len(ret.before.research_results) + 1
        /\ Len(AGENT_SESSION_STATE.analysis_results)
               = Len(ret.before.analysis_results) + 1

(***************************************************************************)
(* The knowledge base as it is called: initialize (app.py:226), search,    *)
(* the tool search_internal, and the start of a new process, which makes   *)
(* a new engine while the cache directory stays.                           *)
(***************************************************************************)
MaxRagLogs == 1

AllWork ==
    [embeddings_ok |-> TRUE, load_ok |-> TRUE, dart_ok |-> TRUE,
     report_ok |-> TRUE, index_ok |-> TRUE, save_ok |-> TRUE]

\* What the services outside the engine do during one call.
RagEnvs ==
    { AllWork,
      [AllWork EXCEPT !.embeddings_ok = FALSE],
      [AllWork EXCEPT !.load_ok = FALSE],
      [AllWork EXCEPT !.dart_ok = FALSE, !.report_ok = FALSE],
      [AllWork EXCEPT !.index_ok = FALSE],
      [AllWork EXCEPT !.save_ok = FALSE] }

\* What the similarity search does during one call.
Sims ==
    { [raises |-> TRUE, first |-> 1], [raises |-> FALSE, first |-> 1],
      [raises |-> FALSE, first |-> 2] }

SearchKs == {2, 4}

\* rag_engine.initialize()
Initialize ==
    /\ \E env \in RagEnvs :
           /\ rag_engine' = initialize(rag_engine, vector_store_dir, env).self
           /\ vector_store_dir' = initialize(rag_engine, vector_store_dir, env).dir
           /\ ret' = [op |-> "initialize",
                      raised |-> initialize(rag_engine, vector_store_dir, env).raised,
                      value |-> None, env |-> env,
                      before |-> [self |-> rag_engine, dir |-> vector_store_dir]]
    /\ UNCHANGED <<authVars, logVars, call, report_files, lockVars, appVars>>

\* rag_engine.search(query, k)
Search ==
    /\ \E k \in SearchKs, env \in RagEnvs, sim \in Sims :
           /\ rag_engine' = search(rag_engine, vector_store_dir, AQuery, k, env, sim).self
           /\ vector_store_dir' = search(rag_engine, vector_store_dir, AQuery, k, env, sim).dir
           /\ ret' = [op |-> "search",
                      raised |-> search(rag_engine, vector_store_dir, AQuery, k, env, sim).raised,
                      value |-> search(rag_engine, vector_store_dir, AQuery, k, env, sim).value,
                      k |-> k, env |-> env, sim |-> sim,
                      before |-> [self |-> rag_engine, dir |-> vector_store_dir]]
    /\ UNCHANGED <<authVars, logVars, call, report_files, lockVars, appVars>>

\* search_internal(query) through its wrapper: the search runs once the
\* permission check has passed.
SearchInternal ==
    /\ Len(log_file) <= MaxRagLogs
    /\ \E env \in RagEnvs, sim \in Sims :
           LET allowed == check_permission(current_session, "search_internal").raised
                              = NoException
               results == search(rag_engine, vector_store_dir, AQuery, 3, env, sim)
               out == wrapper(TheLogs, current_session, "search_internal", <<>>,
                              [p \in {"query"} |-> AQuery],
                              allowed /\ results.value # <<>>, "none")
           IN /\ rag_engine' = IF allowed THEN results.self ELSE rag_engine
              /\ vector_store_dir' = IF allowed THEN results.dir ELSE vector_store_dir
              /\ SetLogs(out.logs)
              /\ ret' = [op |-> "search_internal", raised |-> out.raised,
                         value |-> out.value, allowed |-> allowed,
                         results |-> IF allowed THEN results.value ELSE <<>>,
                         env |-> env, sim |-> sim,
                         before |-> [self |-> rag_engine, dir |-> vector_store_dir]]
    /\ UNCHANGED <<authVars, call, report_files, lockVars, appVars>>

\* A new process imports core.rag_engine: a new engine, the same files.
NewProcess ==
    /\ rag_engine # NewRAGEngine
    /\ rag_engine' = NewRAGEngine
    /\ ret' = Returned("new_process", None)
    /\ UNCHANGED <<authVars, logVars, call, report_files, vector_store_dir,
                   lockVars, appVars>>

RagNext ==
    \/ Login
    \/ Initialize
    \/ Search
    \/ SearchInternal
    \/ NewProcess

RagSpec == Init /\ [][RagNext]_vars

(***************************************************************************)
(* C19                                                                     *)
(***************************************************************************)
\* The cached index can be loaded during the call.
C19_CacheLoads ==
    /\ ret.before.dir # None
    /\ ret.env.embeddings_ok
    /\ ret.env.load_ok

\* The corpus the call loads, chunked.
C19_Chunks == _chunk_documents(_load_financial_datasets(ret.env))

\* initialize does nothing when an index is loaded; otherwise the cached
\* index is taken when it loads, and an index of the corpus is built and
\* saved only when it does not; a normal return leaves vector_store set.
C19_LoadsOrBuilds ==
    ret.op = "initialize" =>
        /\ ret.before.self.vector_store # None =>
               /\ ret.raised = NoException
               /\ rag_engine = ret.before.self
               /\ vector_store_dir = ret.before.dir
        /\ (ret.before.self.vector_store = None /\ C19_CacheLoads) =>
               /\ ret.raised = NoException
               /\ rag_engine.vector_store = ret.before.dir
               /\ vector_store_dir = ret.before.dir
        /\ (ret.before.self.vector_store = None /\ ~C19_CacheLoads
                /\ ret.raised = NoException) =>
               /\ rag_engine.vector_store = FAISS(C19_Chunks)
               /\ vector_store_dir = FAISS(C19_Chunks)
        /\ ret.raised = NoException => rag_engine.vector_store # None

\* C19: RAGEngine.initialize does nothing when an index is already loaded;
\* otherwise it first tries the cached index and builds a new one (load the
\* corpus, chunk, embed, save to the cache directory) only when the cache
\* load fails.  After an initialize that returns normally vector_store is
\* set, and after an initialize that raises vector_store is None.
C19_InitializeLoadsOrBuildsOrStaysUninitialised ==
    /\ C19_LoadsOrBuilds
    /\ (ret.op = "initialize" /\ ret.raised # NoException) =>
           rag_engine.vector_store = None

\* An initialize that raised because the built index could not be saved.
C19_RaisedWithIndex ==
    /\ ret.op = "initialize"
    /\ ret.raised # NoException
    /\ ~ret.env.save_ok
    /\ rag_engine.vector_store # None
    /\ vector_store_dir = ret.before.dir

(***************************************************************************)
(* C20                                                                     *)
(***************************************************************************)
\* The engine had no index and the call could not make one.
C20_InitialisationFails ==
    /\ ret.before.self.vector_store = None
    /\ ~(ret.before.dir # None /\ ret.env.embeddings_ok /\ ret.env.load_ok)
    /\ ~(ret.env.embeddings_ok /\ ret.env.index_ok /\ ret.env.save_ok)

C20_NothingFound == <<"[internal knowledge base] nothing found">>

\* C20: RAGEngine.search(query, k) never raises: it initialises the engine
\* when it has no index, returns at most k results, each with content,
\* source, category and doc_type, and returns the empty list when the
\* initialisation or the similarity search fails; search_internal then
\* answers with the message that nothing was found, not with an error.
C20_SearchNeverRaises ==
    /\ ret.op = "search" =>
           /\ ret.raised = NoException
           /\ Len(ret.value) <= ret.k
           /\ \A i \in DOMAIN ret.value :
                  DOMAIN ret.value[i] = {"content", "source", "category", "doc_type"}
           /\ ret.before.self.vector_store # None => rag_engine = ret.before.self
           /\ (ret.before.self.vector_store = None /\ ~C20_InitialisationFails) =>
                  rag_engine.vector_store # None
           /\ (C20_InitialisationFails \/ ret.sim.raises) => ret.value = <<>>
           /\ (~C20_InitialisationFails /\ ~ret.sim.raises) =>
                  Len(ret.value) = Min(ret.k, Len(rag_engine.vector_store.documents))
    /\ (ret.op = "search_internal" /\ ret.allowed) =>
           /\ ret.raised = NoException
           /\ (C20_InitialisationFails \/ ret.sim.raises) =>
                  /\ ret.results = <<>>
                  /\ ret.value = C20_NothingFound
           /\ ret.value = C20_NothingFound <=> ret.results = <<>>

\* A search that made the index itself and had more documents than k.
C20_LazySearch ==
    /\ ret.op = "search"
    /\ ret.before.self.vector_store = None
    /\ ~ret.sim.raises
    /\ Len(ret.value) = ret.k
    /\ Len(rag_engine.vector_store.documents) > ret.k

\* A search whose initialisation failed.
C20_FailedSearch ==
    /\ ret.op = "search"
    /\ C20_InitialisationFails
    /\ ret.value = <<>>

\* A permitted search_internal whose similarity search failed.
C20_Witness ==
    /\ ret.op = "search_internal"
    /\ ret.allowed
    /\ ret.sim.raises
    /\ ~C20_InitialisationFails
    /\ ret.results = <<>>
    /\ ret.value = C20_NothingFound

(***************************************************************************)
(* app.py: the human-in-the-loop interface.  It is drawn for a logged-in   *)
(* user once a result is stored and nothing is being processed (lines      *)
(* 260-262 and 381-382).                                                   *)
(***************************************************************************)
\* AuthenticationManager.get_user_info: role is the value of the enum.
get_user_info(session) ==
    IF ~is_logged_in(session)
    THEN [logged_in |-> FALSE, user_id |-> None, role |-> None,
          permissions |-> [p \in {} |-> FALSE]]
    ELSE [logged_in |-> TRUE, user_id |-> session.user_id,
          role |-> session.role, permissions |-> session.permissions]

\* The role the approve button compares with.
APPROVER_ROLE == "SENIOR_MANAGER"

\* The title of an approved report; the time is that of the approval.
ApprovedTitle ==
    <<"seung","in","doen"," ","ri","seo","chi"," ","bo","go","seo"," ","-",
      " ","2","0","2","6","0","1","0","1","_","0","0","0","0","0","0">>

\* dict.get(key, default) of the session state.
SessionGet(state, key, default) ==
    IF key \in DOMAIN state THEN state[key] ELSE default

saves_on_approval_mutant(user_info) == FALSE

\* render_hitl_interface, line 656
saves_on_approval(user_info) == user_info.role = APPROVER_ROLE

\* render_hitl_interface, lines 650-662: the approve button.
approve_report(logs, session, state, files, fault) ==
    IF saves_on_approval(get_user_info(session))
    THEN [logs |-> wrapper(logs, session, "save_report", <<>>,
                           [p \in {"title", "content"} |->
                               IF p = "title" THEN ApprovedTitle
                               ELSE SessionGet(state, "last_result", <<>>)],
                           TRUE, fault).logs,
          files |->
              IF wrapper(logs, session, "save_report", <<>>,
                         [p \in {"title", "content"} |->
                             IF p = "title" THEN ApprovedTitle
                             ELSE SessionGet(state, "last_result", <<>>)],
                         TRUE, fault).write = None
              THEN files
              ELSE Append(files,
                          wrapper(logs, session, "save_report", <<>>,
                                  [p \in {"title", "content"} |->
                                      IF p = "title" THEN ApprovedTitle
                                      ELSE SessionGet(state, "last_result", <<>>)],
                                  TRUE, fault).write),
          called |-> TRUE]
    ELSE [logs |-> logs, files |-> files, called |-> FALSE]

\* The approve button is pressed.
ApproveReport ==
    /\ is_logged_in(current_session)
    /\ SessionGet(session_state, "last_result", <<>>) # <<>>
    /\ ~session_state.processing
    /\ \E fault \in Faults :
           /\ SetLogs(approve_report(TheLogs, current_session, session_state,
                                     report_files, fault).logs)
           /\ report_files' =
                  approve_report(TheLogs, current_session, session_state,
                                 report_files, fault).files
           /\ ret' = [op |-> "approve_report", raised |-> NoException,
                      value |-> None,
                      called |-> approve_report(TheLogs, current_session,
                                                session_state, report_files,
                                                fault).called,
                      fault |-> fault,
                      before |-> [report_files |-> report_files,
                                  log_file |-> log_file]]
    /\ session_state' =
           [k \in DOMAIN session_state \cup {"report_approved"} |->
               IF k = "report_approved" THEN TRUE ELSE session_state[k]]
    /\ UNCHANGED <<authVars, call, ragVars, lockVars, AGENT_SESSION_STATE, agent_calls,
                   user_agent>>

HitlNext ==
    \/ Login
    \/ Logout
    \/ process_multi_agent_request
    \/ ApproveReport

HitlSpec == Init /\ [][HitlNext]_vars

(***************************************************************************)
(* C21                                                                     *)
(***************************************************************************)
\* The approval wrote the stored result as a report.
C21_Saved ==
    /\ Len(report_files) = Len(ret.before.report_files) + 1
    /\ report_files[Len(report_files)].content = session_state.last_result

\* C21: when a logged-in senior manager approves the current report, the
\* approved report (last_result) is saved through save_report (unless the
\* file system fails); when a junior analyst approves, nothing is saved.
C21_SeniorApprovalSavesReport ==
    ret.op = "approve_report" =>
        /\ (IsSenior(current_session) /\ ret.fault = "none") => C21_Saved
        /\ ~IsSenior(current_session) => report_files = ret.before.report_files

\* A senior manager approved a stored result and no report was written.
C21_SeniorApprovedNothingSaved ==
    /\ ret.op = "approve_report"
    /\ IsSenior(current_session)
    /\ ret.fault = "none"
    /\ session_state.report_approved
    /\ ~ret.called
    /\ report_files = ret.before.report_files
    /\ log_file = ret.before.log_file

(***************************************************************************)
(* core/logger.py called from several threads.  A logging method is        *)
(* "with self.lock:" around the line written to the file and the record    *)
(* appended to the memory buffer; export_logs copies the log file and then *)
(* calls log_system_event, holding no lock itself.  A thread is at         *)
(*   "idle"     outside the logger,                                        *)
(*   "copy"     in export_logs before shutil.copy2,                        *)
(*   "acquire"  at "with self.lock:",                                      *)
(*   "write"    inside the lock, before self.logger.info(log_message),     *)
(*   "append"   inside the lock, before self.memory_buffer.append,         *)
(*   "release"  at the end of the with block.                              *)
(***************************************************************************)
ExportPath == <<"a","u","d","i","t","_","e","x","p","o","r","t",".","l","o","g">>

CopyError == <<"c","o","p","y"," ","f","a","i","l","e","d">>

\* The calls a thread may make.
LogCalls ==
    { [kind |-> "log_audit", user_id |-> <<"k","i","m">>,
       action |-> "USER_ACTION", details |-> EmptyDict],
      [kind |-> "log_system_event", event_type |-> "CONFIG_CHANGED",
       message |-> "configuration changed", details |-> EmptyDict],
      [kind |-> "log_security_event", user_id |-> <<"k","i","m">>,
       event_type |-> "INPUT_BLOCKED", message |-> "dangerous input blocked",
       severity |-> "CRITICAL", details |-> EmptyDict] }

\* export_logs, lines 355-359 and 364-368: the call of log_system_event.
ExportLogCall(copied) ==
    IF copied
    THEN [kind |-> "log_system_event", event_type |-> "LOG_EXPORT",
          message |-> "audit log exported",
          details |-> [k \in {"export_path"} |-> Str(ExportPath)],
          export |-> "ok"]
    ELSE [kind |-> "log_system_event", event_type |-> "LOG_EXPORT_ERROR",
          message |-> "audit log export failed",
          details |-> [k \in {"error"} |-> Str(CopyError)],
          export |-> "failed"]

\* The body of the with block of the three logging methods.
with_lock(logs, op) ==
    CASE op.kind = "log_audit" ->
             logged_audit(logs, op.user_id, op.action, op.details)
      [] op.kind = "log_system_event" ->
             logged_system_event(logs, op.event_type, op.message, op.details)
      [] op.kind = "log_security_event" ->
             logged_security_event(logs, op.user_id, op.event_type, op.message,
                                   op.severity, op.details)

Busy(t) == threads[t].pc # "idle"

RECURSIVE CallsStartedBy(_)
CallsStartedBy(n) ==
    IF n = 0 THEN 0
    ELSE CallsStartedBy(n - 1) + threads[n].completed
             + (IF Busy(n) THEN 1 ELSE 0)

can_acquire_mutant(locked) == TRUE

\* threading.Lock.acquire returns once the lock is not held.
can_acquire(locked) == ~locked

\* A thread calls log_audit, log_system_event or log_security_event.
StartLogCall ==
    /\ \E t \in 1..NumThreads, op \in LogCalls :
           /\ ~Busy(t)
           /\ CallsStartedBy(NumThreads) < MaxLockCalls
           /\ threads' = [threads EXCEPT ![t].pc = "acquire", ![t].op = op]
    /\ UNCHANGED <<authVars, logVars, call, report_files, ragVars, lock,
                   appVars, ret>>

\* A thread calls export_logs.
StartExport ==
    /\ \E t \in 1..NumThreads :
           /\ ~Busy(t)
           /\ CallsStartedBy(NumThreads) < MaxLockCalls
           /\ threads' = [threads EXCEPT ![t].pc = "copy"]
    /\ UNCHANGED <<authVars, logVars, call, report_files, ragVars, lock,
                   appVars, ret>>

\* export_logs, line 353: the copy of the log file works or raises.
copy_log_file(t) ==
    /\ threads[t].pc = "copy"
    /\ \E copied \in BOOLEAN :
           threads' = [threads EXCEPT ![t].pc = "acquire",
                                      ![t].op = ExportLogCall(copied)]
    /\ UNCHANGED <<authVars, logVars, call, report_files, ragVars, lock,
                   appVars, ret>>

CopyLogFile == \E t \in 1..NumThreads : copy_log_file(t)

\* with self.lock: the lock is taken.
acquire_lock(t) ==
    /\ threads[t].pc = "acquire"
    /\ can_acquire(lock)
    /\ lock' = TRUE
    /\ threads' = [threads EXCEPT ![t].pc = "write"]
    /\ UNCHANGED <<authVars, logVars, call, report_files, ragVars, appVars, ret>>

AcquireLock == \E t \in 1..NumThreads : acquire_lock(t)

\* The record is made and its line is written to the log file.
write_log_line(t) ==
    /\ threads[t].pc = "write"
    /\ log_file' = with_lock(TheLogs, threads[t].op).file
    /\ threads' =
           [threads EXCEPT
               ![t].pc = "append",
               ![t].record =
                   with_lock(TheLogs, threads[t].op).buffer[
                       Len(with_lock(TheLogs, threads[t].op).buffer)]]
    /\ UNCHANGED <<authVars, memory_buffer, call, report_files, ragVars, lock,
                   appVars, ret>>

WriteLogLine == \E t \in 1..NumThreads : write_log_line(t)

\* self.memory_buffer.append(display_record)
append_record(t) ==
    /\ threads[t].pc = "append"
    /\ memory_buffer' = deque_append(memory_buffer, threads[t].record)
    /\ threads' = [threads EXCEPT ![t].pc = "release"]
    /\ UNCHANGED <<authVars, log_file, call, report_files, ragVars, lock,
                   appVars, ret>>

AppendRecord == \E t \in 1..NumThreads : append_record(t)

\* The with block ends: the lock is released and the method returns;
\* export_logs then returns the path (value.path) or raises again.
release_lock(t) ==
    /\ threads[t].pc = "release"
    /\ lock' = FALSE
    /\ threads' = [threads EXCEPT ![t] = IdleThread(threads[t].completed + 1)]
    /\ ret' = [op |-> IF "export" \in DOMAIN threads[t].op THEN "export_logs"
                      ELSE threads[t].op.kind,
               raised |-> IF "export" \in DOMAIN threads[t].op
                             /\ threads[t].op.export = "failed"
                          THEN "Exception" ELSE NoException,
               value |-> IF "export" \in DOMAIN threads[t].op
                            /\ threads[t].op.export = "ok"
                         THEN [path |-> ExportPath] ELSE None,
               thread |-> t,
               timestamp |-> threads[t].record.timestamp,
               formatted_message |-> threads[t].record.formatted_message]
    /\ UNCHANGED <<authVars, logVars, call, report_files, ragVars, appVars>>

ReleaseLock == \E t \in 1..NumThreads : release_lock(t)

\* What a thread does once it is in a call.
ThreadStep(t) ==
    \/ copy_log_file(t)
    \/ acquire_lock(t)
    \/ write_log_line(t)
    \/ append_record(t)
    \/ release_lock(t)

LockNext ==
    \/ StartLogCall
    \/ StartExport
    \/ CopyLogFile
    \/ AcquireLock
    \/ WriteLogLine
    \/ AppendRecord
    \/ ReleaseLock

\* A thread that can take a step is scheduled in the end (every step of a
\* thread changes its place).
LockSpec ==
    /\ Init
    /\ [][LockNext]_vars
    /\ \A t \in 1..NumThreads : WF_lockVars(ThreadStep(t))

(***************************************************************************)
(* C22                                                                     *)
(***************************************************************************)
RECURSIVE C22_Count(_, _)
C22_Count(n, pc) ==
    IF n = 0 THEN 0
    ELSE C22_Count(n - 1, pc) + (IF threads[n].pc = pc THEN 1 ELSE 0)

RECURSIVE C22_Completed(_)
C22_Completed(n) ==
    IF n = 0 THEN 0 ELSE C22_Completed(n - 1) + threads[n].completed

\* One record per finished call, none lost, none twice (the record of the
\* call that returned last is in the buffer once), and the buffer in the
\* order of the file.
C22_OneRecordPerCallInFileOrder ==
    /\ Len(memory_buffer)
           = 1 + C22_Completed(NumThreads) + C22_Count(NumThreads, "release")
    /\ Len(log_file) = Len(memory_buffer) + C22_Count(NumThreads, "append")
    /\ \A i \in DOMAIN memory_buffer :
           /\ memory_buffer[i].formatted_message = log_file[i].message
           /\ memory_buffer[i].timestamp = log_file[i].asctime
    /\ ret.op \in {"log_audit", "log_system_event", "log_security_event",
                   "export_logs"} =>
           \E i \in DOMAIN memory_buffer :
               /\ memory_buffer[i].timestamp = ret.timestamp
               /\ memory_buffer[i].formatted_message = ret.formatted_message
               /\ \A j \in DOMAIN memory_buffer :
                      memory_buffer[j].timestamp = ret.timestamp => j = i

\* C22: concurrent calls of log_audit, log_system_event and
\* log_security_event are serialised by the lock: each call appends exactly
\* one record to the memory buffer, no record is lost or duplicated, the
\* records of the buffer are in the order of their lines in the log file,
\* and no call deadlocks, export_logs included: every call returns.
C22_CallsAreSerialisedAndReturn ==
    /\ []C22_OneRecordPerCallInFileOrder
    /\ \A t \in 1..NumThreads : (Busy(t) ~> ~Busy(t))

\* Two threads were in the logger at once, one of them holding the lock and
\* the other waiting for it, and the calls so far have returned.
C22_Witness ==
    /\ threads[1].pc = "acquire"
    /\ threads[2].pc = "append"
    /\ "export" \in DOMAIN threads[1].op
    /\ lock
    /\ C22_Completed(NumThreads) >= 1

(***************************************************************************)
(* The guardrails with a moderation service whose scores lie around the    *)
(* thresholds.                                                             *)
(***************************************************************************)
MaxModerationLogs == 1

Unflagged(category, score) ==
    [status |-> "ok", flagged |-> FALSE,
     categories |-> [c \in {category} |-> FALSE],
     category_scores |-> [c \in {category} |-> score]]

\* What the moderation service may do for one call; scores in thousandths.
\* "illicit" is a category without a threshold of its own.
ModerationAnswers ==
    { [status |-> "disabled"], [status |-> "error"],
      [status |-> "ok", flagged |-> FALSE, categories |-> NoCategories,
       category_scores |-> NoScores],
      [status |-> "ok", flagged |-> TRUE,
       categories |-> [c \in {"violence"} |-> TRUE],
       category_scores |-> [c \in {"violence"} |-> 900]],
      [status |-> "ok", flagged |-> TRUE,
       categories |-> [c \in {"violence"} |-> FALSE],
       category_scores |-> [c \in {"violence"} |-> 10]],
      [status |-> "ok", flagged |-> FALSE,
       categories |-> [c \in {"violence"} |-> TRUE],
       category_scores |-> [c \in {"violence"} |-> 100]],
      Unflagged("violence", 400), Unflagged("violence", 401),
      Unflagged("sexual/minors", 100), Unflagged("sexual/minors", 101),
      Unflagged("illicit", 500), Unflagged("illicit", 501) }

ModeratedInputs ==
    { GuardSafeInput, GuardSpecialChars, BlacklistedRequest, GuardBlank }

ModeratedOutputs ==
    { OutPlain, OutFinancial, OutProfitGuarantee, OutStrongRecommend,
      GuardPassword }

\* check_input(user_input, user_id)
CheckInputModerated ==
    /\ Len(log_file) <= MaxModerationLogs
    /\ \E user_id \in GuardUsers, api \in ModerationAnswers,
          user_input \in ModeratedInputs :
           \E result \in {check_input(user_input, api)} :
               /\ SetLogs(check_input_logs(TheLogs, user_id, user_input, result))
               /\ ret' = result @@ [op |-> "check_input", raised |-> NoException,
                                    user_input |-> user_input, api |-> api,
                                    user_id |-> user_id]
    /\ UNCHANGED <<authVars, toolVars, appVars>>

\* filter_output(output, user_id)
FilterOutputModerated ==
    /\ Len(log_file) <= MaxModerationLogs
    /\ \E output \in ModeratedOutputs, api \in ModerationAnswers,
          user_id \in GuardUsers :
           \E result \in {filter_output(output, api)} :
               /\ SetLogs(filter_output_logs(TheLogs, user_id, output, result))
               /\ ret' = result @@ [op |-> "filter_output", raised |-> NoException,
                                    output |-> output, api |-> api,
                                    user_id |-> user_id]
    /\ UNCHANGED <<authVars, toolVars, appVars>>

ModerationNext ==
    \/ CheckInputModerated
    \/ FilterOutputModerated

ModerationSpec == Init /\ [][ModerationNext]_vars

(***************************************************************************)
(* C23                                                                     *)
(***************************************************************************)
\* The threshold of a category, in thousandths.
C23_Threshold(category) ==
    IF \E i \in DOMAIN moderation_categories : moderation_categories[i] = category
    THEN moderation_thresholds(category)
    ELSE 500

\* The service answered, and flagged the text or gave a score above the
\* threshold of its category.
C23_ServiceFlags(api) ==
    /\ api.status = "ok"
    /\ \/ api.flagged
       \/ \E c \in DOMAIN api.category_scores :
              api.category_scores[c] > C23_Threshold(c)

C23_HasModerationError(issues) ==
    \E i \in DOMAIN issues : issues[i].kind = "AI moderation error"

\* C23: a failure of the moderation API call never blocks:
\* _call_openai_moderation then gives flagged = False with the error set,
\* and check_input / filter_output give is_safe = True with risk level
\* WARNING and an 'AI moderation error' entry in detected_issues; stage 2
\* blocks a text only when the API flags it or some category score is
\* strictly greater than its threshold (0.5 for a category without one).
C23_ModerationFailureNeverBlocks ==
    (ret.op \in {"check_input", "filter_output"} /\ ret.moderated # <<>>) =>
        /\ ret.api.status # "ok" =>
               /\ ~ret.moderation_result.flagged
               /\ ret.moderation_result.error # ""
               /\ ret.is_safe
               /\ ret.risk_level = WARNING
               /\ C23_HasModerationError(ret.detected_issues)
        /\ ret.risk_level = BLOCKED <=> C23_ServiceFlags(ret.api)
        /\ ret.is_safe <=> ~C23_ServiceFlags(ret.api)

\* The call of the service raised for an input stage 1 found nothing in.
C23_Witness ==
    /\ ret.op = "check_input"
    /\ ret.api.status = "error"
    /\ ret.moderated = <<GuardSafeInput>>
    /\ ret.is_safe
    /\ ret.risk_level = WARNING
    /\ Len(ret.detected_issues) = 1

\* A score just above its threshold blocked, though the service did not flag.
C23_BlockedByThreshold ==
    /\ ret.op = "filter_output"
    /\ ret.api = Unflagged("illicit", 501)
    /\ ret.risk_level = BLOCKED

\* A score equal to its threshold did not block.
C23_NotBlockedAtThreshold ==
    /\ ret.op = "check_input"
    /\ ret.api = Unflagged("sexual/minors", 100)
    /\ ret.moderated # <<>>
    /\ ret.is_safe

(***************************************************************************)
(* C24                                                                     *)
(***************************************************************************)
\* C24: whenever filter_output returns risk level WARNING, whose message
\* says the output was modified for regulatory compliance, filtered_content
\* differs from the original output.
C24_WarningMeansModified ==
    (ret.op = "filter_output" /\ ret.risk_level = WARNING) =>
        ret.filtered_content # ret.output

\* WARNING for an output without a finding of stage 1, returned as it was,
\* because the moderation service was not available.
C24_UnmodifiedAfterModerationError ==
    /\ ret.op = "filter_output"
    /\ ret.output = OutPlain
    /\ ret.api.status = "disabled"
    /\ ret.risk_level = WARNING
    /\ ret.message = "output modified for compliance"
    /\ ret.filtered_content = ret.output

\* WARNING for a forbidden phrase the table has no replacement for: the
\* phrase holds a financial keyword, so the disclaimer is appended.
C24_DisclaimerOnly ==
    /\ ret.op = "filter_output"
    /\ ret.output = OutStrongRecommend
    /\ ret.api.status = "ok"
    /\ ret.risk_level = WARNING
    /\ ret.filtered_content = ret.output \o <<"\n", "\n">> \o financial_disclaimer

\* WARNING for a replaced phrase: the content differs.
C24_ModifiedViolation ==
    /\ ret.op = "filter_output"
    /\ ret.output = OutProfitGuarantee
    /\ ret.risk_level = WARNING
    /\ ret.filtered_content # ret.output

====
